---- MODULE Spec2Model ----
(***************************************************************************)
(* A model of the shielded pool programs:                                  *)
(*   on_chain_program      Initialize, Deposit, Withdraw (basic variant)   *)
(*   shielded_pool_program entry point, Withdraw (audit-gated variant),    *)
(*                         SubmitAudit                                     *)
(* The ledger (accounts with lamports, owner and data) is the state.  Each *)
(* handler is an operator that computes, from the ledger and its inputs,   *)
(* the line at which the handler returns, the ProgramError it returns and  *)
(* the ledger it leaves; the host commits that ledger only when the        *)
(* handler returns Ok(()) and rolls every mutation back otherwise.         *)
(*                                                                         *)
(* 32-byte values that the code only compares (roots, nullifiers,          *)
(* commitments) are modelled by identifiers; values whose bytes the code   *)
(* takes apart (addresses, the recipient field, amounts) keep the parts    *)
(* the code distinguishes.                                                 *)
(*                                                                         *)
(* Both crates derive the pool's addresses from `crate::ID` with the same  *)
(* seeds; the model lets them run as one program on one ledger, so that a  *)
(* basic and an audit-gated withdrawal can contend for the same marker.    *)
(***************************************************************************)
EXTENDS Integers, Naturals, Sequences, FiniteSets, TLC

VARIABLES
    accounts,   \* the ledger: address -> [lamports, owner, data]
    result,     \* what the last instruction did: handler, return line, error
    root_log,   \* history: the roots of the successful deposits, oldest first
    paid,       \* history: per nullifier, the successful withdrawals that carried it
    audit_log   \* history: the commitments of the successful record-creating SubmitAudits

vars == <<accounts, result, root_log, paid, audit_log>>

----------------------------------------------------------------------------
(* Bounds of the model.                                                    *)

\* Deposits explored under Spec.
MaxDeposits == 1
\* Deposits explored under SpecRing (one distinct root per deposit).
RingDeposits == 34
\* Lamports the payer holds beyond the rent of the pool state, the vault and
\* one audit record: they pay for the deposits and the nullifier markers.
PayerBudget == 5

----------------------------------------------------------------------------
(* Program constants.                                                      *)

INITIALIZE == 0
DEPOSIT == 1
WITHDRAW == 2
SUBMIT_AUDIT == 3

PROOF_LEN == 388
WITNESS_HEADER_LEN == 12
\* on_chain_program: root, nullifier, recipient, amount
PUBLIC_INPUTS_BASIC == 4
\* shielded_pool_program: root, nullifier, recipient, amount, wa_commitment
PUBLIC_INPUTS == 5
AUDIT_PROOF_LEN == 388
AUDIT_PUBLIC_INPUTS == 2
AUDIT_WITNESS_HEADER_LEN == 12
DEPOSIT_DATA_LEN == 72

WITNESS_LEN_BASIC == WITNESS_HEADER_LEN + (PUBLIC_INPUTS_BASIC * 32)
WITNESS_LEN == WITNESS_HEADER_LEN + (PUBLIC_INPUTS * 32)
AUDIT_WITNESS_LEN == AUDIT_WITNESS_HEADER_LEN + (AUDIT_PUBLIC_INPUTS * 32)

\* The ring buffer's capacity: `[[0u8; 32]; 32]`.
ROOT_HISTORY_SIZE == 32

\* state.rs is not part of the sources: the layout follows the data model
\* (discriminator, currentRoot, 32 roots, rootsIndex, padding).
ShieldedPoolState_LEN == 8 + 32 + (ROOT_HISTORY_SIZE * 32) + 4 + 4
AuditRecord_LEN == 8 + 32
\* The tags are any non-zero values: a freshly created account is zero-filled.
ShieldedPoolState_DISCRIMINATOR == "pool"
AuditRecord_DISCRIMINATOR == "audit"
ZeroDiscriminator == "zero"

\* [0u8; 32]
ZERO_ROOT == 0

----------------------------------------------------------------------------
(* Addresses.  An address is 32 bytes; `head` stands for its first 30      *)
(* bytes and `tail` for its last 2.                                         *)

Key(name, tail) == [head |-> <<"key", name>>, tail |-> tail]

\* Address::find_program_address: a hash of the seeds and the program id,
\* distinct seeds giving distinct addresses.
find_program_address(label, seed) == [head |-> <<label, seed>>, tail |-> 0]

PAYER == Key("payer", 0)
\* ALICE and ALICE2 share their first 30 bytes and differ in the last 2.
ALICE == Key("alice", 0)
ALICE2 == Key("alice", 1)
BOB == Key("bob", 0)
ZK_VERIFIER_PROGRAM_ID_BASIC == Key("Co5ivXmsZDqMZk37Kc3yAtW3dNZgkbAwZKePXNBXLh8T", 0)
ZK_VERIFIER_PROGRAM_ID == Key("3qfJCYMTnPwFgSX1T3Ncem6b5DphHtNoMmgyVeb52Yti", 0)
AUDIT_VERIFIER_PROGRAM_ID == Key("2A6wr286RiTEYXVjrqmU87xCNG6nusU5rM8ynSbvfdqb", 0)
\* A program a caller may pass in place of a verifier.
OTHER_PROGRAM == Key("other_program", 0)

Nullifiers == {"n1", "n2"}
Commitments == {"c1", "c2"}

POOL_STATE_PDA == find_program_address("pool_state", "")
VAULT_PDA == find_program_address("vault", "")
NullifierPda(n) == find_program_address("nullifier", n)
AuditPda(c) == find_program_address("audit", c)

Wallets == {PAYER, ALICE, ALICE2, BOB}

\* The accounts of the ledger.
AddressList ==
    <<PAYER, ALICE, ALICE2, BOB, POOL_STATE_PDA, VAULT_PDA,
      NullifierPda("n1"), NullifierPda("n2"), AuditPda("c1"), AuditPda("c2")>>
Addresses == {AddressList[i] : i \in 1..Len(AddressList)}

----------------------------------------------------------------------------
(* The host: rent, account data, the system program.                       *)

\* Rent::try_minimum_balance: grows with the data size (scaled down).
try_minimum_balance(space) == 2 + space

NoData == [kind |-> "empty"]

data_len(d) ==
    CASE d.kind = "empty" -> 0
      [] d.kind = "pool" -> ShieldedPoolState_LEN
      [] d.kind = "audit" -> AuditRecord_LEN

\* A zero-filled ShieldedPoolState, as CreateAccount leaves it.
ZeroedPoolState ==
    [kind |-> "pool",
     discriminator |-> ZeroDiscriminator,
     current_root |-> ZERO_ROOT,
     roots |-> [i \in 0..(ROOT_HISTORY_SIZE - 1) |-> ZERO_ROOT],
     roots_index |-> 0,
     roots_live |-> 0]

ZeroedAuditRecord ==
    [kind |-> "audit", discriminator |-> ZeroDiscriminator, wa_commitment |-> "zero"]

ZeroedData(space) ==
    IF space = ShieldedPoolState_LEN THEN ZeroedPoolState
    ELSE IF space = AuditRecord_LEN THEN ZeroedAuditRecord
    ELSE NoData

\* The system program's CreateAccount succeeds only when the payer can fund it
\* and the new address is not in use.
CreateAccountOk(led, from, to, lamports) ==
    /\ led[from].lamports >= lamports
    /\ led[from].owner = "system"
    /\ led[to].lamports = 0
    /\ led[to].data.kind = "empty"
    /\ led[to].owner = "system"
    /\ from # to

CreateAccount(led, from, to, lamports, space) ==
    [led EXCEPT
        ![from].lamports = @ - lamports,
        ![to] = [lamports |-> lamports, owner |-> "program", data |-> ZeroedData(space)]]

\* The system program's Transfer.
TransferOk(led, from, to, lamports) ==
    /\ led[from].lamports >= lamports
    /\ led[from].owner = "system"
    /\ led[from].data.kind = "empty"

\* Mutant: the transfer moves nothing.
SystemTransfer_nothing(led, from, to, lamports) == led

SystemTransfer(led, from, to, lamports) ==
    IF from = to THEN led
    ELSE [led EXCEPT ![from].lamports = @ - lamports, ![to].lamports = @ + lamports]

----------------------------------------------------------------------------
(* What a handler returns.                                                 *)

Exit(line, err, led) == [line |-> line, err |-> err, accounts |-> led]

Ok == "Ok"

\* One entry of the `accounts` slice a handler receives.
Acct(address, is_signer, is_writable) ==
    [address |-> address, is_signer |-> is_signer, is_writable |-> is_writable]

owned_by_program(led, a) == led[a.address].owner = "program"
is_data_empty(led, a) == led[a.address].data.kind = "empty"

\* `&mut data[..ShieldedPoolState::LEN]` panics on an account whose data is shorter.
holds_pool_state(led, a) == data_len(led[a.address].data) >= ShieldedPoolState_LEN

----------------------------------------------------------------------------
(* ShieldedPoolState (state.rs is not part of the sources: section 4.1).   *)

is_initialized(state) == state.discriminator = ShieldedPoolState_DISCRIMINATOR

\* appendRoot: write at rootsIndex, set currentRoot, advance modulo the capacity.
add_root(state, new_root) ==
    [state EXCEPT
        !.roots[state.roots_index] = new_root,
        !.current_root = new_root,
        !.roots_index = (state.roots_index + 1) % ROOT_HISTORY_SIZE,
        !.roots_live = IF @ < ROOT_HISTORY_SIZE THEN @ + 1 ELSE @]

\* containsRoot: the candidate equals one of the live entries.
check_root(state, root) ==
    \E i \in 0..(state.roots_live - 1) : state.roots[i] = root

audit_is_initialized(record) == record.discriminator = AuditRecord_DISCRIMINATOR

----------------------------------------------------------------------------
(* Byte decoding.                                                          *)

RECURSIVE from_be_bytes_acc(_, _, _)
from_be_bytes_acc(bytes, i, acc) ==
    IF i > Len(bytes) THEN acc
    ELSE from_be_bytes_acc(bytes, i + 1, (acc * 256) + bytes[i])

\* u64::from_be_bytes: the first byte is the most significant.
from_be_bytes(bytes) == from_be_bytes_acc(bytes, 1, 0)

RECURSIVE from_le_bytes_acc(_, _, _)
from_le_bytes_acc(bytes, i, acc) ==
    IF i < 1 THEN acc
    ELSE from_le_bytes_acc(bytes, i - 1, (acc * 256) + bytes[i])

\* u64::from_le_bytes: the first byte is the least significant.
from_le_bytes(bytes) == from_le_bytes_acc(bytes, Len(bytes), 0)

\* The 32-byte recipient field: `top` is bytes 0..2, `low` is bytes 2..32.
\* expected_recipient[2..32] = address[0..30], the first two bytes stay zero.
expected_recipient(address) == [top |-> 0, low |-> address.head]

\* Mutant: an amount field with non-zero high bytes decodes to nothing.
decode_amount_validated(submitted_amount) ==
    IF submitted_amount.high # 0 THEN 0 ELSE from_be_bytes(submitted_amount.low)

\* The 32-byte amount field: `high` is bytes 0..24, `low` is bytes 24..32.
decode_amount(submitted_amount) == from_be_bytes(submitted_amount.low)

----------------------------------------------------------------------------
(* on_chain_program: Initialize and Deposit.                               *)

SYSTEM_PROGRAM == Key("system_program", 0)

\* Mutant: a buffer of any length is taken.
any_length(data, expected_len) == TRUE

\* `data.len() != 72`, `data.len() != PROOF_LEN + WITNESS_LEN`, `data.len() != total_len`
exact_length(data, expected_len) == data.len = expected_len

\* Mutant: the discriminator is not looked at.
already_initialized_ignored(led, state_account) == FALSE

\* `if state.is_initialized() { return Ok(()) }`
already_initialized(led, state_account) == is_initialized(led[state_account.address].data)

\* accounts: [payer, state_account, vault, system_program]
process_initialize(accs, data) ==
    IF Len(accs) # 4 THEN Exit(30, "NotEnoughAccountKeys", accounts)
    ELSE
    LET payer == accs[1]
        state_account == accs[2]
        vault == accs[3]
        pda == find_program_address("pool_state", "")
        state_rent == try_minimum_balance(ShieldedPoolState_LEN)
        create_state == is_data_empty(accounts, state_account)
        led1 == IF create_state
                THEN CreateAccount(accounts, payer.address, state_account.address,
                                   state_rent, ShieldedPoolState_LEN)
                ELSE accounts
        led2 == [led1 EXCEPT ![state_account.address].data =
                    [@ EXCEPT !.discriminator = ShieldedPoolState_DISCRIMINATOR,
                              !.current_root = ZERO_ROOT,
                              !.roots = [i \in 0..(ROOT_HISTORY_SIZE - 1) |-> ZERO_ROOT],
                              !.roots_index = 0,
                              !.roots_live = 0]]
        vault_pda == find_program_address("vault", "")
        vault_rent == try_minimum_balance(0)
    IN
    IF ~payer.is_signer THEN Exit(34, "MissingRequiredSignature", accounts)
    ELSE IF ~state_account.is_writable \/ ~vault.is_writable
    THEN Exit(38, "InvalidAccountData", accounts)
    ELSE IF state_account.address # pda THEN Exit(44, "InvalidAccountData", accounts)
    ELSE IF ~is_data_empty(accounts, state_account)
            /\ ~owned_by_program(accounts, state_account)
    THEN Exit(48, "InvalidAccountOwner", accounts)
    ELSE IF create_state
            /\ ~CreateAccountOk(accounts, payer.address, state_account.address, state_rent)
    THEN Exit(68, "SystemProgramError", accounts)
    ELSE IF ~holds_pool_state(led1, state_account) THEN Exit(74, "Panic", led1)
    ELSE IF already_initialized(led1, state_account) THEN Exit(78, Ok, led1)
    ELSE IF vault.address # vault_pda THEN Exit(90, "InvalidAccountData", led2)
    ELSE IF led2[vault.address].lamports > 0 /\ ~owned_by_program(led2, vault)
    THEN Exit(94, "InvalidAccountOwner", led2)
    ELSE IF is_data_empty(led2, vault) /\ led2[vault.address].lamports = 0
    THEN IF ~CreateAccountOk(led2, payer.address, vault.address, vault_rent)
         THEN Exit(114, "SystemProgramError", led2)
         ELSE Exit(118, Ok, CreateAccount(led2, payer.address, vault.address, vault_rent, 0))
    ELSE Exit(118, Ok, led2)

\* Mutant: the deposit leaves the root history as it was.
update_root_skipped(led, state_account, new_root) == led

\* `state.add_root(new_root)` on the state account's data.
update_root(led, state_account, new_root) ==
    [led EXCEPT ![state_account.address].data = add_root(@, new_root)]

\* accounts: [payer, state, vault, system_program]
\* data: [amount: u64 little-endian][commitment: 32 bytes][new_root: 32 bytes]
process_deposit(accs, data) ==
    IF Len(accs) # 4 THEN Exit(124, "NotEnoughAccountKeys", accounts)
    ELSE
    LET payer == accs[1]
        state_account == accs[2]
        vault == accs[3]
        amount == from_le_bytes(data.amount)
        new_root == data.new_root
        led1 == SystemTransfer(accounts, payer.address, vault.address, amount)
        led2 == update_root(led1, state_account, new_root)
    IN
    IF ~payer.is_signer THEN Exit(128, "MissingRequiredSignature", accounts)
    ELSE IF ~state_account.is_writable \/ ~vault.is_writable
    THEN Exit(132, "InvalidAccountData", accounts)
    ELSE IF ~exact_length(data, DEPOSIT_DATA_LEN) THEN Exit(137, "InvalidInstructionData", accounts)
    ELSE IF ~TransferOk(accounts, payer.address, vault.address, amount)
    THEN Exit(157, "SystemProgramError", accounts)
    ELSE IF state_account.address # find_program_address("pool_state", "")
    THEN Exit(161, "InvalidAccountData", led1)
    ELSE IF ~owned_by_program(led1, state_account)
    THEN Exit(165, "InvalidAccountOwner", led1)
    ELSE IF vault.address # find_program_address("vault", "")
    THEN Exit(169, "InvalidAccountData", led1)
    ELSE IF ~owned_by_program(led1, vault) THEN Exit(173, "InvalidAccountOwner", led1)
    ELSE IF ~holds_pool_state(led1, state_account) THEN Exit(178, "Panic", led1)
    ELSE IF ~is_initialized(led1[state_account.address].data)
    THEN Exit(181, "UninitializedAccount", led1)
    ELSE Exit(187, Ok, led2)

----------------------------------------------------------------------------
(* Withdraw.  data: [proof][witness header][root][nullifier][recipient]    *)
(* [amount] and, in the audit-gated variant, [wa_commitment]; `len` is the  *)
(* length of the buffer.  verifier_ok is what the verifier program answers. *)

\* Mutant: any program is taken for the verifier.
any_verifier(verifier, program_id) == TRUE

\* `zk_verifier.address() != &ZK_VERIFIER_PROGRAM_ID`
fixed_verifier(verifier, program_id) == verifier.address = program_id

\* Mutant: a funded marker is not noticed.
nullifier_unchecked(led, nullifier_account) == FALSE

\* `nullifier_account.lamports() > 0`: the marker is funded, the proof was spent.
nullifier_used(led, nullifier_account) == led[nullifier_account.address].lamports > 0

\* Mutant: any recipient field is taken.
recipient_unbound(submitted_recipient, recipient) == TRUE

\* Mutant: the last two bytes of the destination's address are bound as well.
recipient_bound_whole(submitted_recipient, recipient) ==
    /\ submitted_recipient = expected_recipient(recipient.address)
    /\ recipient.address.tail = 0

\* `submitted_recipient != expected_recipient`
recipient_bound(submitted_recipient, recipient) ==
    submitted_recipient = expected_recipient(recipient.address)

\* Mutant: the verifier's answer is not propagated.
verifier_ignored(verifier_ok) == TRUE

\* The CPI to the verifier: `invoke(&verify_ix, &[])?`.
verifier_accepts(verifier_ok) == verifier_ok

\* Mutant: the marker is never created.
claim_nullifier_skipped(led, payer, nullifier_account) == led

\* CreateAccount { from: payer, to: nullifier_account, lamports, space: 0 }
claim_nullifier(led, payer, nullifier_account) ==
    CreateAccount(led, payer.address, nullifier_account.address,
                  try_minimum_balance(0), 0)

\* Mutant: no rent-exempt floor is kept.
min_balance_none(led, vault) == 0

\* vault.lamports().checked_sub(min_balance)
min_balance(led, vault) == try_minimum_balance(data_len(led[vault.address].data))

\* Mutant: the balances are not written.
pay_out_skipped(led, vault, recipient, amount_u64) == led

\* vault.set_lamports(new_vault_balance); recipient.set_lamports(new_recipient_balance)
pay_out(led, vault, recipient, amount_u64) ==
    LET new_vault_balance == led[vault.address].lamports - amount_u64
        new_recipient_balance == led[recipient.address].lamports + amount_u64
        led1 == [led EXCEPT ![vault.address].lamports = new_vault_balance]
    IN [led1 EXCEPT ![recipient.address].lamports = new_recipient_balance]

\* Lines 322-354 of on_chain_program, 199-231 of shielded_pool_program (at
\* `base`): the vault checks and the transfer, after the marker was created.
fund_transfer(base, led, vault, recipient, amount_u64) ==
    IF vault.address # find_program_address("vault", "")
    THEN Exit(base + 2, "InvalidAccountData", led)
    ELSE IF ~owned_by_program(led, vault) THEN Exit(base + 6, "InvalidAccountOwner", led)
    ELSE IF led[vault.address].lamports < min_balance(led, vault)
    THEN Exit(base + 15, "InsufficientFunds", led)
    ELSE IF amount_u64 > led[vault.address].lamports - min_balance(led, vault)
    THEN Exit(base + 17, "InsufficientFunds", led)
    ELSE IF led[vault.address].lamports < amount_u64
    THEN Exit(base + 23, "InsufficientFunds", led)
    ELSE Exit(base + 32, Ok, pay_out(led, vault, recipient, amount_u64))

\* on_chain_program::process_withdraw
\* accounts: [payer, recipient, vault, state, nullifier, zk_verifier, system_program]
on_chain_program_process_withdraw(accs, data, verifier_ok) ==
    IF Len(accs) # 7 THEN Exit(194, "NotEnoughAccountKeys", accounts)
    ELSE
    LET payer == accs[1]
        recipient == accs[2]
        vault == accs[3]
        state_account == accs[4]
        nullifier_account == accs[5]
        zk_verifier == accs[6]
        state == accounts[state_account.address].data
        derived_nullifier_pda == find_program_address("nullifier", data.nullifier)
        amount_u64 == decode_amount(data.amount)
        led1 == claim_nullifier(accounts, payer, nullifier_account)
    IN
    IF ~payer.is_signer THEN Exit(198, "MissingRequiredSignature", accounts)
    ELSE IF ~recipient.is_writable \/ ~vault.is_writable
            \/ ~nullifier_account.is_writable \/ ~state_account.is_writable
    THEN Exit(206, "InvalidAccountData", accounts)
    ELSE IF ~fixed_verifier(zk_verifier, ZK_VERIFIER_PROGRAM_ID_BASIC)
    THEN Exit(213, "IncorrectProgramId", accounts)
    ELSE IF ~owned_by_program(accounts, state_account)
    THEN Exit(218, "InvalidAccountOwner", accounts)
    ELSE IF ~holds_pool_state(accounts, state_account) THEN Exit(223, "Panic", accounts)
    ELSE IF ~is_initialized(state) THEN Exit(226, "UninitializedAccount", accounts)
    ELSE IF ~exact_length(data, PROOF_LEN + WITNESS_LEN_BASIC)
    THEN Exit(234, "InvalidInstructionData", accounts)
    ELSE IF ~check_root(state, data.root) THEN Exit(256, "InvalidAccountData", accounts)
    ELSE IF nullifier_account.address # derived_nullifier_pda
    THEN Exit(264, "InvalidAccountData", accounts)
    ELSE IF nullifier_used(accounts, nullifier_account)
    THEN Exit(269, "AccountAlreadyInitialized", accounts)
    ELSE IF ~recipient_bound(data.recipient, recipient)
    THEN Exit(276, "InvalidAccountData", accounts)
    ELSE IF ~verifier_accepts(verifier_ok) THEN Exit(298, "VerifierError", accounts)
    ELSE IF ~CreateAccountOk(accounts, payer.address, nullifier_account.address,
                             try_minimum_balance(0))
    THEN Exit(320, "SystemProgramError", accounts)
    ELSE fund_transfer(322, led1, vault, recipient, amount_u64)

\* Mutant: the audit record is never found.
audit_linkage_not_found(led, audit_record_account, wa_commitment_withdraw) ==
    [line |-> 110, err |-> "UninitializedAccount"]

\* Mutant: the audit record is not looked at.
audit_linkage_unchecked(led, audit_record_account, wa_commitment_withdraw) ==
    [line |-> 0, err |-> Ok]

\* The audit linkage of the audit-gated variant (lines 92-127): the line and
\* error it returns with, or line 0 when the record is verified.
audit_linkage(led, audit_record_account, wa_commitment_withdraw) ==
    LET derived_audit_pda == find_program_address("audit", wa_commitment_withdraw)
        audit_data == led[audit_record_account.address].data
    IN
    IF audit_record_account.address # derived_audit_pda
    THEN [line |-> 99, err |-> "InvalidAccountData"]
    ELSE IF ~owned_by_program(led, audit_record_account)
    THEN [line |-> 104, err |-> "InvalidAccountOwner"]
    ELSE IF led[audit_record_account.address].lamports = 0
    THEN [line |-> 110, err |-> "UninitializedAccount"]
    ELSE IF data_len(audit_data) < AuditRecord_LEN
    THEN [line |-> 115, err |-> "InvalidAccountData"]
    ELSE IF ~audit_is_initialized(audit_data)
    THEN [line |-> 120, err |-> "UninitializedAccount"]
    ELSE IF audit_data.wa_commitment # wa_commitment_withdraw
    THEN [line |-> 124, err |-> "InvalidAccountData"]
    ELSE [line |-> 0, err |-> Ok]

\* shielded_pool_program::instructions::withdraw::process_withdraw
\* accounts: [payer, recipient, vault, state, nullifier, zk_verifier,
\*            audit_record, system_program]
process_withdraw(accs, data, verifier_ok) ==
    IF Len(accs) # 8 THEN Exit(28, "NotEnoughAccountKeys", accounts)
    ELSE
    LET payer == accs[1]
        recipient == accs[2]
        vault == accs[3]
        state_account == accs[4]
        nullifier_account == accs[5]
        zk_verifier == accs[6]
        audit_record_account == accs[7]
        state == accounts[state_account.address].data
        audit == audit_linkage(accounts, audit_record_account, data.wa_commitment)
        derived_nullifier_pda == find_program_address("nullifier", data.nullifier)
        amount_u64 == decode_amount(data.amount)
        led1 == claim_nullifier(accounts, payer, nullifier_account)
    IN
    IF ~payer.is_signer THEN Exit(32, "MissingRequiredSignature", accounts)
    ELSE IF ~recipient.is_writable \/ ~vault.is_writable
            \/ ~nullifier_account.is_writable \/ ~state_account.is_writable
    THEN Exit(40, "InvalidAccountData", accounts)
    ELSE IF ~fixed_verifier(zk_verifier, ZK_VERIFIER_PROGRAM_ID)
    THEN Exit(47, "IncorrectProgramId", accounts)
    ELSE IF ~owned_by_program(accounts, state_account)
    THEN Exit(52, "InvalidAccountOwner", accounts)
    ELSE IF ~holds_pool_state(accounts, state_account) THEN Exit(57, "Panic", accounts)
    ELSE IF ~is_initialized(state) THEN Exit(60, "UninitializedAccount", accounts)
    ELSE IF ~exact_length(data, PROOF_LEN + WITNESS_LEN)
    THEN Exit(68, "InvalidInstructionData", accounts)
    ELSE IF audit.err # Ok THEN Exit(audit.line, audit.err, accounts)
    ELSE IF ~check_root(state, data.root) THEN Exit(133, "InvalidAccountData", accounts)
    ELSE IF nullifier_account.address # derived_nullifier_pda
    THEN Exit(141, "InvalidAccountData", accounts)
    ELSE IF nullifier_used(accounts, nullifier_account)
    THEN Exit(146, "AccountAlreadyInitialized", accounts)
    ELSE IF ~recipient_bound(data.recipient, recipient)
    THEN Exit(153, "InvalidAccountData", accounts)
    ELSE IF ~verifier_accepts(verifier_ok) THEN Exit(175, "VerifierError", accounts)
    ELSE IF ~CreateAccountOk(accounts, payer.address, nullifier_account.address,
                             try_minimum_balance(0))
    THEN Exit(197, "SystemProgramError", accounts)
    ELSE fund_transfer(199, led1, vault, recipient, amount_u64)

----------------------------------------------------------------------------
(* shielded_pool_program: SubmitAudit.                                     *)
(* data: [audit_proof][witness header][wa_commitment][ct_commitment]       *)

\* Mutant: a funded record address is always a conflict.
existing_audit_record_conflict(led, audit_record_account, wa_commitment) ==
    Exit(77, "AccountAlreadyInitialized", led)

\* Mutant: the existing record is written again.
existing_audit_record_rewritten(led, audit_record_account, wa_commitment) ==
    Exit(72, Ok, [led EXCEPT ![audit_record_account.address].data =
                      [kind |-> "audit", discriminator |-> ZeroDiscriminator,
                       wa_commitment |-> wa_commitment]])

\* Mutant: whatever a funded record address holds is taken for the record.
existing_audit_record_accepted(led, audit_record_account, wa_commitment) ==
    Exit(72, Ok, led)

\* Lines 65-78: what an already funded record address answers.
existing_audit_record(led, audit_record_account, wa_commitment) ==
    LET state_data == led[audit_record_account.address].data IN
    IF data_len(state_data) >= AuditRecord_LEN
       /\ audit_is_initialized(state_data)
       /\ state_data.wa_commitment = wa_commitment
    THEN Exit(72, Ok, led)
    ELSE Exit(77, "AccountAlreadyInitialized", led)

\* Mutant: the created record is left zero-filled.
write_audit_record_skipped(led, audit_record_account, wa_commitment) == led

\* Lines 113-118: record.discriminator and record.wa_commitment are written.
write_audit_record(led, audit_record_account, wa_commitment) ==
    [led EXCEPT ![audit_record_account.address].data =
        [@ EXCEPT !.discriminator = AuditRecord_DISCRIMINATOR,
                  !.wa_commitment = wa_commitment]]

\* accounts: [payer, audit_record_account, audit_verifier, system_program]
process_submit_audit(accs, data, verifier_ok) ==
    IF Len(accs) # 4 THEN Exit(25, "NotEnoughAccountKeys", accounts)
    ELSE
    LET payer == accs[1]
        audit_record_account == accs[2]
        audit_verifier == accs[3]
        wa_commitment == data.wa_commitment
        derived_pda == find_program_address("audit", wa_commitment)
        lamports == try_minimum_balance(AuditRecord_LEN)
        led1 == CreateAccount(accounts, payer.address, audit_record_account.address,
                              lamports, AuditRecord_LEN)
    IN
    IF ~payer.is_signer THEN Exit(29, "MissingRequiredSignature", accounts)
    ELSE IF ~audit_record_account.is_writable THEN Exit(33, "InvalidAccountData", accounts)
    ELSE IF ~fixed_verifier(audit_verifier, AUDIT_VERIFIER_PROGRAM_ID)
    THEN Exit(38, "IncorrectProgramId", accounts)
    ELSE IF ~exact_length(data, AUDIT_PROOF_LEN + AUDIT_WITNESS_LEN)
    THEN Exit(44, "InvalidInstructionData", accounts)
    ELSE IF audit_record_account.address # derived_pda
    THEN Exit(62, "InvalidAccountData", accounts)
    ELSE IF accounts[audit_record_account.address].lamports > 0
    THEN existing_audit_record(accounts, audit_record_account, wa_commitment)
    ELSE IF ~verifier_accepts(verifier_ok) THEN Exit(87, "VerifierError", accounts)
    ELSE IF ~CreateAccountOk(accounts, payer.address, audit_record_account.address,
                             lamports)
    THEN Exit(111, "SystemProgramError", accounts)
    ELSE Exit(121, Ok, write_audit_record(led1, audit_record_account, wa_commitment))

----------------------------------------------------------------------------
(* shielded_pool_program: the entry point.                                 *)

Handled(op, out) ==
    [op |-> op, line |-> out.line, err |-> out.err, accounts |-> out.accounts]

\* instruction_data is the selector byte followed by the handler's data; an
\* empty buffer has no selector.  initialize.rs and deposit.rs of
\* shielded_pool_program are not part of the sources: the arms for INITIALIZE
\* and DEPOSIT lead to on_chain_program's handlers of the same names.
process_instruction(instruction_data, accs, verifier_ok) ==
    IF Len(instruction_data.bytes) = 0
    THEN Handled("process_instruction", Exit(23, "InvalidInstructionData", accounts))
    ELSE
    LET ix_disc == instruction_data.bytes[1]
        data == instruction_data.data
    IN
    CASE ix_disc = INITIALIZE ->
            Handled("process_initialize", process_initialize(accs, data))
      [] ix_disc = DEPOSIT ->
            Handled("process_deposit", process_deposit(accs, data))
      [] ix_disc = WITHDRAW ->
            Handled("process_withdraw", process_withdraw(accs, data, verifier_ok))
      [] OTHER ->
            Handled("process_instruction", Exit(38, "InvalidInstructionData", accounts))

----------------------------------------------------------------------------
(* The host's transaction: the handler's mutations are kept only when it   *)
(* returns Ok(()) and the instruction left the sum of lamports unchanged.  *)

RECURSIVE SumLamports(_, _)
SumLamports(led, i) ==
    IF i = 0 THEN 0
    ELSE led[AddressList[i]].lamports + SumLamports(led, i - 1)

TotalLamports(led) == SumLamports(led, Len(AddressList))

Outcome(h) ==
    IF h.err = Ok /\ TotalLamports(h.accounts) # TotalLamports(accounts)
    THEN [op |-> h.op, line |-> h.line, err |-> "UnbalancedInstruction"]
    ELSE [op |-> h.op, line |-> h.line, err |-> h.err]

\* The ledger the transaction leaves.
Committed(h) == IF Outcome(h).err = Ok THEN h.accounts ELSE accounts

Commit(h) ==
    /\ result' = Outcome(h)
    /\ accounts' = Committed(h)

----------------------------------------------------------------------------
(* The initial ledger: nothing of the pool exists; the wallets are funded. *)

PayerFunds ==
    try_minimum_balance(ShieldedPoolState_LEN) + try_minimum_balance(0)
    + try_minimum_balance(AuditRecord_LEN) + PayerBudget

InitialAccount(a) ==
    [lamports |-> IF a = PAYER THEN PayerFunds
                  ELSE IF a \in Wallets THEN try_minimum_balance(0)
                  ELSE 0,
     owner |-> "system",
     data |-> NoData]

Init ==
    /\ accounts = [a \in Addresses |-> InitialAccount(a)]
    /\ result = [op |-> "none", line |-> 0, err |-> Ok]
    /\ root_log = <<>>
    /\ paid = [n \in Nullifiers |-> <<>>]
    /\ audit_log = {}

----------------------------------------------------------------------------
(* The inputs the model draws.                                             *)

Signer(a) == Acct(a, TRUE, TRUE)
Writable(a) == Acct(a, FALSE, TRUE)
ReadOnly(a) == Acct(a, FALSE, FALSE)

\* [payer, state_account, vault, system_program]
PoolAccounts ==
    <<Signer(PAYER), Writable(POOL_STATE_PDA), Writable(VAULT_PDA), ReadOnly(SYSTEM_PROGRAM)>>

\* The list with another account in the place of the vault.
FaultyPoolAccounts ==
    { <<Signer(PAYER), Writable(POOL_STATE_PDA), Writable(BOB), ReadOnly(SYSTEM_PROGRAM)>> }

\* Lists with a fault in the signer, the flags, the state account or the count.
\* What a handler answers to them does not depend on the ledger: the model
\* submits none of them, the properties evaluate the handlers on all of them.
MisaddressedPoolAccounts ==
    { <<Writable(PAYER), Writable(POOL_STATE_PDA), Writable(VAULT_PDA), ReadOnly(SYSTEM_PROGRAM)>>,
      <<Signer(PAYER), ReadOnly(POOL_STATE_PDA), Writable(VAULT_PDA), ReadOnly(SYSTEM_PROGRAM)>>,
      <<Signer(PAYER), Writable(VAULT_PDA), Writable(VAULT_PDA), ReadOnly(SYSTEM_PROGRAM)>>,
      <<Signer(PAYER), Writable(POOL_STATE_PDA), Writable(VAULT_PDA)>> }

NoData0 == [len |-> 0]

\* u64 little-endian and big-endian encodings of small amounts.
LeBytes(n) == <<n, 0, 0, 0, 0, 0, 0, 0>>
BeBytes(n) == <<0, 0, 0, 0, 0, 0, 0, n>>

DepositAmounts == {0, 1}

DepositData(amount, new_root) ==
    [len |-> DEPOSIT_DATA_LEN, amount |-> LeBytes(amount),
     commitment |-> "cm", new_root |-> new_root]

\* The roots a withdrawal cites under Spec: the zero root, which no deposit
\* supplies, and the root of the first deposit.
DepositRoots == {ZERO_ROOT, ZERO_ROOT + 1}

\* The amount field: `high` says whether bytes 0..24 are all zero (0) or not (1).
AmountField(high, n) == [high |-> high, low |-> BeBytes(n)]

WithdrawAmounts == {AmountField(0, 0), AmountField(0, 1), AmountField(0, 3), AmountField(1, 1)}

WithdrawData(len, root, nullifier, recipient, amount, wa_commitment) ==
    [len |-> len, root |-> root, nullifier |-> nullifier, recipient |-> recipient,
     amount |-> amount, wa_commitment |-> wa_commitment]

BASIC_LEN == PROOF_LEN + WITNESS_LEN_BASIC
AUDITED_LEN == PROOF_LEN + WITNESS_LEN
AUDIT_LEN == AUDIT_PROOF_LEN + AUDIT_WITNESS_LEN

\* [payer, recipient, vault, state, nullifier, zk_verifier, system_program]
BasicAccounts(recipient, nullifier_account) ==
    <<Signer(PAYER), Writable(recipient), Writable(VAULT_PDA), Writable(POOL_STATE_PDA),
      Writable(nullifier_account), ReadOnly(ZK_VERIFIER_PROGRAM_ID_BASIC),
      ReadOnly(SYSTEM_PROGRAM)>>

\* [payer, recipient, vault, state, nullifier, zk_verifier, audit_record, system_program]
AuditedAccounts(recipient, nullifier_account, audit_record_account) ==
    <<Signer(PAYER), Writable(recipient), Writable(VAULT_PDA), Writable(POOL_STATE_PDA),
      Writable(nullifier_account), ReadOnly(ZK_VERIFIER_PROGRAM_ID),
      ReadOnly(audit_record_account), ReadOnly(SYSTEM_PROGRAM)>>

\* An account list with entry i replaced.
With(accs, i, a) == [accs EXCEPT ![i] = a]

\* The grid of requests that are right in everything the accounts and the
\* framing decide: every destination, nullifier, root, amount and verifier
\* answer.  The claims quantify over it.
BasicGrid ==
    { [accs |-> BasicAccounts(r, NullifierPda(n)),
       data |-> WithdrawData(BASIC_LEN, root, n, expected_recipient(ALICE), amt, "c1"),
       verifier_ok |-> v] :
        r \in {ALICE, ALICE2, BOB}, n \in Nullifiers, root \in DepositRoots,
        amt \in WithdrawAmounts, v \in BOOLEAN }

\* The requests of the grid the model submits.
BasicRequests ==
    { req \in BasicGrid :
        \/ /\ req.accs[2].address = ALICE
           /\ req.data.amount.high = 0
           /\ req.verifier_ok
        \/ /\ req.data.nullifier = "n1"
           /\ req.data.amount = AmountField(0, 1)
           /\ req.data.root = 1 }

\* Requests with a fault in the signer, the flags, the vault, the state
\* account, the marker's address or the count (not submitted, as above).
MisaddressedBasicRequests ==
    LET accs == BasicAccounts(ALICE, NullifierPda("n1"))
        data == WithdrawData(BASIC_LEN, 1, "n1", expected_recipient(ALICE),
                             AmountField(0, 1), "c1")
    IN
    { [accs |-> a, data |-> data, verifier_ok |-> TRUE] :
        a \in { With(accs, 1, Writable(PAYER)),
                With(accs, 2, ReadOnly(ALICE)),
                With(accs, 3, Writable(BOB)),
                With(accs, 4, Writable(VAULT_PDA)),
                With(accs, 4, Writable(BOB)),
                With(accs, 5, Writable(NullifierPda("n2"))),
                SubSeq(accs, 1, 6) } }

\* Requests with one fault in the verifier, the destination or the framing.
FaultyBasicRequests ==
    LET accs == BasicAccounts(ALICE, NullifierPda("n1"))
        data == WithdrawData(BASIC_LEN, 1, "n1", expected_recipient(ALICE),
                             AmountField(0, 1), "c1")
    IN
    { [accs |-> a, data |-> data, verifier_ok |-> TRUE] :
        a \in { With(accs, 6, ReadOnly(OTHER_PROGRAM)),
                With(accs, 6, ReadOnly(ZK_VERIFIER_PROGRAM_ID)),
                With(accs, 2, Writable(VAULT_PDA)) } }
    \cup
    { [accs |-> accs, data |-> d, verifier_ok |-> TRUE] :
        d \in { [data EXCEPT !.len = AUDITED_LEN],
                [data EXCEPT !.len = BASIC_LEN - 1],
                [data EXCEPT !.recipient = [top |-> 1, low |-> ALICE.head]],
                [data EXCEPT !.recipient = expected_recipient(VAULT_PDA)] } }
    \cup
    { [accs |-> With(accs, 2, Writable(VAULT_PDA)),
       data |-> [data EXCEPT !.recipient = expected_recipient(VAULT_PDA), !.amount = amt],
       verifier_ok |-> TRUE] : amt \in {AmountField(0, 0), AmountField(0, 1)} }

AuditedGrid ==
    { [accs |-> AuditedAccounts(r, NullifierPda(n), AuditPda(c)),
       data |-> WithdrawData(AUDITED_LEN, root, n, expected_recipient(ALICE), amt, c),
       verifier_ok |-> v] :
        r \in {ALICE, ALICE2, BOB}, n \in Nullifiers, root \in DepositRoots,
        amt \in WithdrawAmounts, c \in Commitments, v \in BOOLEAN }

AuditedRequests ==
    { req \in AuditedGrid :
        \/ /\ req.accs[2].address = ALICE
           /\ req.data.amount.high = 0
           /\ req.verifier_ok
        \/ /\ req.data.nullifier = "n1"
           /\ req.data.amount = AmountField(0, 1)
           /\ req.data.root = 1
           /\ req.data.wa_commitment = "c1" }

MisaddressedAuditedRequests ==
    LET accs == AuditedAccounts(ALICE, NullifierPda("n1"), AuditPda("c1"))
        data == WithdrawData(AUDITED_LEN, 1, "n1", expected_recipient(ALICE),
                             AmountField(0, 1), "c1")
    IN
    { [accs |-> a, data |-> data, verifier_ok |-> TRUE] :
        a \in { With(accs, 1, Writable(PAYER)),
                With(accs, 2, ReadOnly(ALICE)),
                With(accs, 3, Writable(BOB)),
                With(accs, 4, Writable(VAULT_PDA)),
                With(accs, 4, Writable(AuditPda("c1"))),
                With(accs, 5, Writable(NullifierPda("n2"))),
                SubSeq(accs, 1, 7) } }

FaultyAuditedRequests ==
    LET accs == AuditedAccounts(ALICE, NullifierPda("n1"), AuditPda("c1"))
        data == WithdrawData(AUDITED_LEN, 1, "n1", expected_recipient(ALICE),
                             AmountField(0, 1), "c1")
    IN
    { [accs |-> a, data |-> data, verifier_ok |-> TRUE] :
        a \in { With(accs, 6, ReadOnly(OTHER_PROGRAM)),
                With(accs, 6, ReadOnly(ZK_VERIFIER_PROGRAM_ID_BASIC)),
                With(accs, 7, ReadOnly(AuditPda("c2"))),
                With(accs, 7, ReadOnly(VAULT_PDA)) } }
    \cup
    { [accs |-> accs, data |-> d, verifier_ok |-> TRUE] :
        d \in { [data EXCEPT !.len = BASIC_LEN],
                [data EXCEPT !.len = AUDITED_LEN + 1],
                [data EXCEPT !.recipient = [top |-> 1, low |-> ALICE.head]],
                [data EXCEPT !.amount = AmountField(1, 1)] } }

\* [payer, audit_record_account, audit_verifier, system_program]
SubmitAuditAccounts(audit_record_account) ==
    <<Signer(PAYER), Writable(audit_record_account), ReadOnly(AUDIT_VERIFIER_PROGRAM_ID),
      ReadOnly(SYSTEM_PROGRAM)>>

SubmitAuditData(len, wa_commitment) ==
    [len |-> len, wa_commitment |-> wa_commitment, ct_commitment |-> "ct"]

SubmitAuditRequests ==
    { [accs |-> SubmitAuditAccounts(AuditPda(c)), data |-> SubmitAuditData(AUDIT_LEN, c),
       verifier_ok |-> v] : c \in Commitments, v \in BOOLEAN }

MisaddressedSubmitAuditRequests ==
    LET accs == SubmitAuditAccounts(AuditPda("c1"))
        data == SubmitAuditData(AUDIT_LEN, "c1")
    IN
    { [accs |-> a, data |-> data, verifier_ok |-> TRUE] :
        a \in { With(accs, 1, Writable(PAYER)),
                With(accs, 2, ReadOnly(AuditPda("c1"))),
                SubSeq(accs, 1, 3) } }

FaultySubmitAuditRequests ==
    LET accs == SubmitAuditAccounts(AuditPda("c1"))
        data == SubmitAuditData(AUDIT_LEN, "c1")
    IN
    { [accs |-> a, data |-> data, verifier_ok |-> TRUE] :
        a \in { With(accs, 2, Writable(AuditPda("c2"))),
                With(accs, 3, ReadOnly(OTHER_PROGRAM)) } }
    \cup
    { [accs |-> accs, data |-> [data EXCEPT !.len = AUDIT_LEN + 32], verifier_ok |-> TRUE] }

----------------------------------------------------------------------------
(* The operations.                                                         *)

Ix(selector, data) == [bytes |-> selector, data |-> data]

\* The history of successful deposits and withdrawals, read off the outcome.
DepositLogged(new_root) ==
    root_log' = IF result'.err = Ok THEN Append(root_log, new_root) ELSE root_log

WithdrawLogged(req) ==
    paid' = IF result'.err = Ok
            THEN [paid EXCEPT ![req.data.nullifier] = Append(@,
                    [gate |-> IF result'.op = "process_withdraw"
                              THEN req.data.wa_commitment ELSE "none",
                     recipient |-> req.accs[2].address,
                     amount |-> decode_amount(req.data.amount),
                     high |-> req.data.amount.high,
                     debit |-> accounts[VAULT_PDA].lamports - accounts'[VAULT_PDA].lamports,
                     credit |-> accounts'[req.accs[2].address].lamports
                                - accounts[req.accs[2].address].lamports])]
            ELSE paid

InitializeWith(lists) ==
    \E accs \in lists :
        /\ Commit(process_instruction(Ix(<<INITIALIZE>>, NoData0), accs, TRUE))
        /\ UNCHANGED <<root_log, paid, audit_log>>

Initialize == InitializeWith({PoolAccounts} \cup FaultyPoolAccounts)

DepositRequests(roots) ==
    { [accs |-> PoolAccounts, data |-> DepositData(a, r)] :
        a \in DepositAmounts, r \in roots }

MisaddressedDepositRequests ==
    { [accs |-> accs, data |-> DepositData(1, 1)] : accs \in MisaddressedPoolAccounts }

FaultyDepositRequests ==
    { [accs |-> accs, data |-> DepositData(1, 1)] : accs \in FaultyPoolAccounts }
    \cup { [accs |-> PoolAccounts,
            data |-> [DepositData(1, 1) EXCEPT !.len = DEPOSIT_DATA_LEN + 1]] }

DepositWith(requests, limit) ==
    \E req \in requests :
        /\ Len(root_log) < limit
        /\ Commit(process_instruction(Ix(<<DEPOSIT>>, req.data), req.accs, TRUE))
        /\ DepositLogged(req.data.new_root)
        /\ UNCHANGED <<paid, audit_log>>

\* Deposit k supplies root k.
Deposit ==
    DepositWith(DepositRequests({Len(root_log) + 1}) \cup FaultyDepositRequests, MaxDeposits)

\* What the two withdraw handlers answer to a request: on_chain_program's
\* handler called as such (its lib.rs is not part of the sources), the
\* audit-gated one through the entry point.
BasicHandled(req) ==
    Handled("on_chain_program_process_withdraw",
            on_chain_program_process_withdraw(req.accs, req.data, req.verifier_ok))

AuditedHandled(req) ==
    process_instruction(Ix(<<WITHDRAW>>, req.data), req.accs, req.verifier_ok)

WithdrawAudited ==
    \E req \in AuditedRequests \cup FaultyAuditedRequests :
        /\ Commit(AuditedHandled(req))
        /\ WithdrawLogged(req)
        /\ UNCHANGED <<root_log, audit_log>>

\* A selector the entry point has no arm for, or no selector at all.
UnknownInstruction ==
    \E selector \in {<<>>, <<SUBMIT_AUDIT>>},
       req \in { r \in SubmitAuditRequests : r.verifier_ok /\ r.data.wa_commitment = "c1" } :
        /\ Commit(process_instruction(Ix(selector, req.data), req.accs, req.verifier_ok))
        /\ UNCHANGED <<root_log, paid, audit_log>>

WithdrawBasicWith(requests) ==
    \E req \in requests :
        /\ Commit(BasicHandled(req))
        /\ WithdrawLogged(req)
        /\ UNCHANGED <<root_log, audit_log>>

WithdrawBasic == WithdrawBasicWith(BasicRequests \cup FaultyBasicRequests)

\* process_submit_audit called as the handler mod.rs exports: the entry point
\* has no arm that leads to it.
SubmitAudit ==
    \E req \in SubmitAuditRequests \cup FaultySubmitAuditRequests :
        /\ Commit(Handled("process_submit_audit",
                process_submit_audit(req.accs, req.data, req.verifier_ok)))
        /\ audit_log' = IF result'.err = Ok /\ result'.line = 121
                         THEN audit_log \cup {req.data.wa_commitment}
                         ELSE audit_log
        /\ UNCHANGED <<root_log, paid>>

Next ==
    \/ Initialize
    \/ Deposit
    \/ WithdrawBasic
    \/ WithdrawAudited
    \/ SubmitAudit
    \/ UnknownInstruction

Spec == Init /\ [][Next]_vars

----------------------------------------------------------------------------
(* on_chain_program alone over a long run of deposits, each with a root    *)
(* never supplied before: deposit k supplies root k.                       *)

InitializeRing == InitializeWith({PoolAccounts})

DepositFresh == DepositWith(DepositRequests({Len(root_log) + 1}), RingDeposits)

\* Withdrawals that cite the first root ever deposited or the latest one.
RingRequests ==
    { [accs |-> BasicAccounts(ALICE, NullifierPda(n)),
       data |-> WithdrawData(BASIC_LEN, root, n, expected_recipient(ALICE),
                             AmountField(0, amt), "c1"),
       verifier_ok |-> TRUE] :
        n \in Nullifiers, root \in {1, Len(root_log)}, amt \in {1} }

WithdrawRing == WithdrawBasicWith(RingRequests)

NextRing ==
    \/ InitializeRing
    \/ DepositFresh
    \/ WithdrawRing

SpecRing == Init /\ [][NextRing]_vars

----------------------------------------------------------------------------
(* SubmitAudit alone on a ledger where anyone may send lamports to a       *)
(* record's derived address before the record is created: the address is   *)
(* then funded and holds no data.                                          *)

FundRecordAddress ==
    \E c \in Commitments, from \in {ALICE, BOB} :
        /\ TransferOk(accounts, from, AuditPda(c), 1)
        /\ accounts' = SystemTransfer(accounts, from, AuditPda(c), 1)
        /\ result' = [op |-> "system_transfer", line |-> 0, err |-> Ok]
        /\ UNCHANGED <<root_log, paid, audit_log>>

NextCollision ==
    \/ SubmitAudit
    \/ FundRecordAddress

SpecCollision == Init /\ [][NextCollision]_vars

----------------------------------------------------------------------------
(* What the claims speak of.                                               *)

\* A funded marker at the nullifier's derived address.
MarkerExists(n) == accounts[NullifierPda(n)].lamports > 0

\* An AuditRecord account at the commitment's derived address.
RecordExists(c) == accounts[AuditPda(c)].lamports > 0

\* The root was written by one of the 32 most recent successful deposits.
IsRecentRoot(root) ==
    \E i \in 1..Len(root_log) :
        i > Len(root_log) - ROOT_HISTORY_SIZE /\ root_log[i] = root

\* Every withdrawal request the claims quantify over.
BasicAll == BasicGrid \cup FaultyBasicRequests \cup MisaddressedBasicRequests
AuditedAll == AuditedGrid \cup FaultyAuditedRequests \cup MisaddressedAuditedRequests

\* The instruction fails and the ledger is as it was.
Rejected(h) == Outcome(h).err # Ok /\ Committed(h) = accounts

WithdrawOps == {"on_chain_program_process_withdraw", "process_withdraw"}

----------------------------------------------------------------------------
\* C1: for every nullifier at most one withdrawal carrying it ever succeeds,
\* whatever the interleaving of basic and audit-gated withdrawals: a nullifier
\* that was paid once has its marker funded ever after, and while the marker
\* is funded every withdrawal carrying that nullifier is rejected.
C1_AtMostOneWithdrawalPerNullifier ==
    \A n \in Nullifiers :
        /\ Len(paid[n]) <= 1
        /\ Len(paid[n]) = 1 => MarkerExists(n)
        /\ MarkerExists(n) =>
            /\ \A req \in BasicAll : req.data.nullifier = n => Rejected(BasicHandled(req))
            /\ \A req \in AuditedAll : req.data.nullifier = n => Rejected(AuditedHandled(req))

\* One claimant of n1 was paid and a conflicting one was turned away.
C1_Witness ==
    /\ Len(paid["n1"]) = 1
    /\ Len(paid["n2"]) = 0
    /\ result.op = "on_chain_program_process_withdraw"
    /\ result.line = 269
    /\ result.err = "AccountAlreadyInitialized"

----------------------------------------------------------------------------
(* What a request is, said without the handlers.                           *)

\* The pool state account exists and carries the discriminator.
PoolReady ==
    /\ accounts[POOL_STATE_PDA].owner = "program"
    /\ accounts[POOL_STATE_PDA].data.kind = "pool"
    /\ accounts[POOL_STATE_PDA].data.discriminator = ShieldedPoolState_DISCRIMINATOR

\* The cited root was written by one of the 32 most recent deposits.
RootKnown(req) == IsRecentRoot(req.data.root)

\* The recipient field is [0, 0] followed by the first 30 bytes of the
\* destination account's address.
Bound(req) == req.data.recipient = [top |-> 0, low |-> req.accs[2].address.head]

\* A SubmitAudit created the record of the request's commitment.
Gated(req) == req.data.wa_commitment \in audit_log

\* The request gets as far as the nullifier check.
ReachesNullifierBasic(req) == PoolReady /\ RootKnown(req)
ReachesNullifierAudited(req) == PoolReady /\ RootKnown(req) /\ Gated(req)

----------------------------------------------------------------------------
\* C2 (as stated): once a withdrawal with nullifier n has succeeded, every
\* further withdrawal whose nullifier field is n fails with the replay
\* condition, whatever its root, recipient, amount, audit commitment and proof.
C2_ReplayWhateverTheOtherFields ==
    \A n \in Nullifiers :
        Len(paid[n]) >= 1 =>
            /\ \A req \in BasicGrid :
                req.data.nullifier = n =>
                    Outcome(BasicHandled(req)).err = "AccountAlreadyInitialized"
            /\ \A req \in AuditedGrid :
                req.data.nullifier = n =>
                    Outcome(AuditedHandled(req)).err = "AccountAlreadyInitialized"

\* C2 (amended): once a withdrawal with nullifier n has succeeded, every
\* further withdrawal whose nullifier field is n fails, and it fails with the
\* replay condition whenever it passes the checks made before the nullifier
\* check (root membership and, in the audit-gated variant, the audit linkage),
\* whatever its recipient, its amount and the verifier's answer.
C2_ReplayAfterEarlierChecks ==
    \A n \in Nullifiers :
        Len(paid[n]) >= 1 =>
            /\ \A req \in BasicAll :
                req.data.nullifier = n =>
                    LET h == BasicHandled(req) IN
                    /\ Outcome(h).err # Ok
                    /\ (req \in BasicGrid /\ ReachesNullifierBasic(req)) =>
                        /\ h.err = "AccountAlreadyInitialized"
                        /\ h.line = 269
            /\ \A req \in AuditedAll :
                req.data.nullifier = n =>
                    LET h == AuditedHandled(req) IN
                    /\ Outcome(h).err # Ok
                    /\ (req \in AuditedGrid /\ ReachesNullifierAudited(req)) =>
                        /\ h.err = "AccountAlreadyInitialized"
                        /\ h.line = 146

\* n1 was paid through the basic handler and the audit-gated handler then
\* turned a withdrawal carrying n1 away as a replay.
C2_Witness ==
    /\ Len(paid["n1"]) = 1
    /\ paid["n1"][1].gate = "none"
    /\ result.op = "process_withdraw"
    /\ result.line = 146
    /\ result.err = "AccountAlreadyInitialized"

----------------------------------------------------------------------------
----------------------------------------------------------------------------
\* A well-formed basic withdrawal that cites the given root.
CitingRoot(root) ==
    [accs |-> BasicAccounts(ALICE, NullifierPda("n1")),
     data |-> WithdrawData(BASIC_LEN, root, "n1", expected_recipient(ALICE),
                           AmountField(0, 1), "c1"),
     verifier_ok |-> TRUE]

\* The values a withdrawal may cite: every root a deposit supplies under
\* SpecRing, the zero root and one that no deposit supplies.
CandidateRoots == 0..(RingDeposits + 1)

----------------------------------------------------------------------------
\* C5: a withdrawal of either variant whose recipient field is not [0, 0]
\* followed by the first 30 bytes of the destination's address is rejected and
\* changes nothing; when its root is known, its nullifier fresh (and its audit
\* record present) it is the recipient check that rejects it, whatever the
\* verifier would answer.
C5_RecipientBinding ==
    /\ \A req \in BasicAll :
        (Len(req.accs) >= 2 /\ ~Bound(req)) =>
            LET h == BasicHandled(req) IN
            /\ Rejected(h)
            /\ (/\ req \in BasicGrid
                /\ ReachesNullifierBasic(req)
                /\ ~MarkerExists(req.data.nullifier))
               => /\ h.line = 276
                  /\ h.accounts = accounts
    /\ \A req \in AuditedAll :
        (Len(req.accs) >= 2 /\ ~Bound(req)) =>
            LET h == AuditedHandled(req) IN
            /\ Rejected(h)
            /\ (/\ req \in AuditedGrid
                /\ ReachesNullifierAudited(req)
                /\ ~MarkerExists(req.data.nullifier))
               => /\ h.line = 153
                  /\ h.accounts = accounts

\* A withdrawal to a destination the recipient field does not encode has just
\* been turned away by the recipient check, with the vault funded.
C5_Witness ==
    /\ result.op = "on_chain_program_process_withdraw"
    /\ result.line = 276
    /\ result.err = "InvalidAccountData"
    /\ accounts[VAULT_PDA].lamports > try_minimum_balance(0)
    /\ ~MarkerExists("n1")

----------------------------------------------------------------------------
\* The vault holds no data: its rent-exempt minimum.
VaultFloor == try_minimum_balance(0)

\* What the vault can pay.
Withdrawable == accounts[VAULT_PDA].lamports - VaultFloor

\* The payer can fund the rent of a nullifier marker.
PayerCanFund == accounts[PAYER].lamports >= try_minimum_balance(0)

\* Root known, nullifier fresh, recipient bound: the checks before the verifier.
ReachesVerifierBasic(req) ==
    /\ ReachesNullifierBasic(req)
    /\ ~MarkerExists(req.data.nullifier)
    /\ Bound(req)

ReachesVerifierAudited(req) ==
    /\ ReachesNullifierAudited(req)
    /\ ~MarkerExists(req.data.nullifier)
    /\ Bound(req)

\* C6: once Initialize created the vault its balance never drops below the
\* rent-exempt minimum, whatever deposits and withdrawals follow; a withdrawal
\* of more than the vault balance less that minimum is rejected, and a
\* withdrawal that is valid in everything else is rejected with
\* insufficient-funds.
C6_VaultFloor ==
    /\ accounts[VAULT_PDA].owner = "program" => accounts[VAULT_PDA].lamports >= VaultFloor
    /\ \A req \in BasicAll :
        decode_amount(req.data.amount) > Withdrawable =>
            LET h == BasicHandled(req) IN
            /\ Rejected(h)
            /\ (/\ req \in BasicGrid
                /\ ReachesVerifierBasic(req)
                /\ req.verifier_ok
                /\ PayerCanFund)
               => /\ h.err = "InsufficientFunds"
                  /\ h.line = 339
    /\ \A req \in AuditedAll :
        decode_amount(req.data.amount) > Withdrawable =>
            LET h == AuditedHandled(req) IN
            /\ Rejected(h)
            /\ (/\ req \in AuditedGrid
                /\ ReachesVerifierAudited(req)
                /\ req.verifier_ok
                /\ PayerCanFund)
               => /\ h.err = "InsufficientFunds"
                  /\ h.line = 216

\* A withdrawal of no more than the vault's raw balance has just been rejected
\* with insufficient-funds: the vault holds its floor and one lamport.
C6_Witness ==
    /\ result.err = "InsufficientFunds"
    /\ result.op \in WithdrawOps
    /\ accounts[VAULT_PDA].lamports = VaultFloor + 1
    /\ \A n \in Nullifiers : ~MarkerExists(n)

----------------------------------------------------------------------------
\* C7: an audit-gated withdrawal whose commitment no SubmitAudit has recorded
\* is rejected, by the audit linkage when the accounts and the framing are
\* right; once SubmitAudit recorded the commitment, a withdrawal with a known
\* root, a fresh nullifier, a bound recipient, an accepted proof and an amount
\* the vault can pay succeeds (the payer funding the marker's rent); every
\* audit-gated withdrawal that was paid cites a recorded commitment.
C7_AuditGate ==
    /\ \A req \in AuditedAll :
        LET h == AuditedHandled(req) IN
        /\ ~Gated(req) => Rejected(h)
        /\ (req \in AuditedGrid /\ PoolReady /\ ~Gated(req)) => h.line \in 92..127
        /\ (/\ req \in AuditedGrid
            /\ ReachesVerifierAudited(req)
            /\ req.verifier_ok
            /\ PayerCanFund
            /\ decode_amount(req.data.amount) <= Withdrawable)
           => /\ Outcome(h).err = Ok
              /\ h.line = 231
    /\ \A n \in Nullifiers :
        \A i \in 1..Len(paid[n]) :
            paid[n][i].gate # "none" => paid[n][i].gate \in audit_log

\* An audit-gated withdrawal citing c2 has just been paid, after the
\* SubmitAudit for c2 and for no other commitment.
C7_Witness ==
    /\ result.op = "process_withdraw"
    /\ result.line = 231
    /\ result.err = Ok
    /\ audit_log = {"c2"}
    /\ \E n \in Nullifiers : Len(paid[n]) = 1 /\ paid[n][1].gate = "c2"

----------------------------------------------------------------------------
\* C8: the entry point dispatches on the first byte to four operations,
\* Initialize (0), Deposit (1), Withdraw (2) and SubmitAudit (3), handing the
\* remaining bytes to the handler; only another selector or an empty buffer is
\* rejected as invalid instruction data.
C8_DispatchesFourSelectors ==
    /\ process_instruction(Ix(<<INITIALIZE>>, NoData0), PoolAccounts, TRUE).op
        = "process_initialize"
    /\ \A req \in DepositRequests(DepositRoots) :
        process_instruction(Ix(<<DEPOSIT>>, req.data), req.accs, TRUE).op = "process_deposit"
    /\ \A req \in AuditedGrid :
        AuditedHandled(req).op = "process_withdraw"
    /\ \A req \in SubmitAuditRequests \cup FaultySubmitAuditRequests
                    \cup MisaddressedSubmitAuditRequests :
        process_instruction(Ix(<<SUBMIT_AUDIT>>, req.data), req.accs, req.verifier_ok)
            = Handled("process_submit_audit",
                      process_submit_audit(req.accs, req.data, req.verifier_ok))
    /\ \A selector \in {<<>>, <<4>>} :
        process_instruction(Ix(selector, NoData0), PoolAccounts, TRUE).err
            = "InvalidInstructionData"

----------------------------------------------------------------------------
\* C9: a withdrawal the verifier does not accept aborts with nothing changed:
\* the handler has made no mutation when it returns (no marker, no balance
\* moved, the root history as it was); when the checks before the verifier
\* pass, it is the verifier's failure that the withdrawal returns.
C9_VerifierFailureAborts ==
    /\ \A req \in BasicAll :
        ~req.verifier_ok =>
            LET h == BasicHandled(req) IN
            /\ Rejected(h)
            /\ h.accounts = accounts
            /\ ReachesVerifierBasic(req) =>
                /\ h.line = 298
                /\ h.err = "VerifierError"
    /\ \A req \in AuditedAll :
        ~req.verifier_ok =>
            LET h == AuditedHandled(req) IN
            /\ Rejected(h)
            /\ h.accounts = accounts
            /\ ReachesVerifierAudited(req) =>
                /\ h.line = 175
                /\ h.err = "VerifierError"

\* The verifier has just refused a withdrawal that passed every earlier check:
\* the vault is funded and no marker exists.
C9_Witness ==
    /\ result.err = "VerifierError"
    /\ result.op \in WithdrawOps
    /\ accounts[VAULT_PDA].lamports > VaultFloor
    /\ \A n \in Nullifiers : ~MarkerExists(n) /\ Len(paid[n]) = 0

----------------------------------------------------------------------------
\* The SubmitAudit request for a commitment.
SubmitAuditFor(c, v) ==
    Handled("process_submit_audit",
            process_submit_audit(SubmitAuditAccounts(AuditPda(c)),
                                 SubmitAuditData(AUDIT_LEN, c), v))

\* C10: after a SubmitAudit succeeded, the SubmitAudit with the same inputs
\* succeeds again and leaves the state as the first one left it: the one
\* AuditRecord of the commitment stays as written, nothing is created.
C10_SubmitAuditIdempotent ==
    \A c \in Commitments :
        c \in audit_log =>
            /\ accounts[AuditPda(c)].owner = "program"
            /\ accounts[AuditPda(c)].lamports = try_minimum_balance(AuditRecord_LEN)
            /\ accounts[AuditPda(c)].data =
                [kind |-> "audit", discriminator |-> AuditRecord_DISCRIMINATOR,
                 wa_commitment |-> c]
            /\ \A v \in BOOLEAN :
                LET h == SubmitAuditFor(c, v) IN
                /\ Outcome(h).err = Ok
                /\ h.line = 72
                /\ Committed(h) = accounts

\* The second SubmitAudit for c1 has just returned success without creating
\* anything.
C10_Witness ==
    /\ result.op = "process_submit_audit"
    /\ result.line = 72
    /\ result.err = Ok
    /\ audit_log = {"c1"}
    /\ RecordExists("c1")
    /\ ~RecordExists("c2")

----------------------------------------------------------------------------
\* Deposits of every amount with the zero root, a root that may already be in
\* the history and roots that are not.
AnyDeposits == DepositRequests(0..(MaxDeposits + 1))

DepositHandled(req) == process_instruction(Ix(<<DEPOSIT>>, req.data), req.accs, TRUE)

\* Withdrawals whose destination is the payer's own account.
SelfPaidBasicRequests ==
    { [accs |-> BasicAccounts(PAYER, NullifierPda(n)),
       data |-> WithdrawData(BASIC_LEN, 1, n, expected_recipient(PAYER), amt, "c1"),
       verifier_ok |-> TRUE] : n \in Nullifiers, amt \in WithdrawAmounts }

SelfPaidAuditedRequests ==
    { [accs |-> AuditedAccounts(PAYER, NullifierPda(n), AuditPda(c)),
       data |-> WithdrawData(AUDITED_LEN, 1, n, expected_recipient(PAYER), amt, c),
       verifier_ok |-> TRUE] : n \in Nullifiers, amt \in WithdrawAmounts, c \in Commitments }

\* What the payer's account is charged for the marker when it is also the
\* destination of the withdrawal.
MarkerRent(req) == IF req.accs[2].address = PAYER THEN try_minimum_balance(0) ELSE 0

\* What a successful withdrawal leaves: the vault less the amount, the
\* destination plus the amount, the marker funded.
WithdrawalPaid(req, h) ==
    LET w == decode_amount(req.data.amount)
        after == Committed(h)
        recipient == req.accs[2].address
    IN
    /\ after[VAULT_PDA].lamports = accounts[VAULT_PDA].lamports - w
    /\ after[recipient].lamports = accounts[recipient].lamports + w - MarkerRent(req)
    /\ after[NullifierPda(req.data.nullifier)].lamports > 0
    /\ ~MarkerExists(req.data.nullifier)

\* C11: a successful Deposit of amount a with root R adds a to the vault,
\* takes a from the payer and appends R to the root history, for every a (0
\* included) and every R, and on an initialized pool every deposit the payer
\* can fund succeeds; a successful Withdraw of amount w takes w from the vault,
\* gives w to the recipient (a recipient that is also the payer has paid the
\* marker's rent from the same account) and leaves the marker funded; the
\* withdrawal that was paid, submitted again, fails as a replay.
C11_DepositAndWithdrawEffects ==
    /\ \A req \in AnyDeposits :
        LET h == DepositHandled(req)
            a == from_le_bytes(req.data.amount)
            R == req.data.new_root
            state == accounts[POOL_STATE_PDA].data
            after == Committed(h)
        IN
        /\ (PoolReady /\ accounts[VAULT_PDA].owner = "program"
                /\ accounts[PAYER].lamports >= a) => Outcome(h).err = Ok
        /\ Outcome(h).err = Ok =>
            /\ after[VAULT_PDA].lamports = accounts[VAULT_PDA].lamports + a
            /\ after[PAYER].lamports = accounts[PAYER].lamports - a
            /\ after[POOL_STATE_PDA].data.current_root = R
            /\ after[POOL_STATE_PDA].data.roots[state.roots_index] = R
            /\ check_root(after[POOL_STATE_PDA].data, R)
            /\ \A a2 \in Addresses \ {VAULT_PDA, PAYER, POOL_STATE_PDA} :
                after[a2] = accounts[a2]
    /\ Len(root_log) >= 1 =>
        /\ PoolReady
        /\ accounts[POOL_STATE_PDA].data.current_root = root_log[Len(root_log)]
        /\ check_root(accounts[POOL_STATE_PDA].data, root_log[Len(root_log)])
    /\ \A req \in BasicAll \cup SelfPaidBasicRequests :
        LET h == BasicHandled(req) IN
        Outcome(h).err = Ok => WithdrawalPaid(req, h)
    /\ \A req \in AuditedAll \cup SelfPaidAuditedRequests :
        LET h == AuditedHandled(req) IN
        Outcome(h).err = Ok => WithdrawalPaid(req, h)
    /\ \A n \in Nullifiers :
        \A i \in 1..Len(paid[n]) :
            LET e == paid[n][i] IN
            /\ MarkerExists(n)
            /\ e.debit = e.amount
            /\ \A req \in BasicGrid :
                (/\ e.gate = "none"
                 /\ req.data.nullifier = n
                 /\ req.accs[2].address = e.recipient
                 /\ decode_amount(req.data.amount) = e.amount
                 /\ req.verifier_ok
                 /\ Bound(req)
                 /\ RootKnown(req))
                => LET h == BasicHandled(req) IN
                   /\ h.err = "AccountAlreadyInitialized"
                   /\ h.line = 269
                   /\ Rejected(h)
            /\ \A req \in AuditedGrid :
                (/\ e.gate = req.data.wa_commitment
                 /\ req.data.nullifier = n
                 /\ req.accs[2].address = e.recipient
                 /\ decode_amount(req.data.amount) = e.amount
                 /\ req.verifier_ok
                 /\ Bound(req)
                 /\ RootKnown(req))
                => LET h == AuditedHandled(req) IN
                   /\ h.err = "AccountAlreadyInitialized"
                   /\ h.line = 146
                   /\ Rejected(h)

\* The scenario: a deposit of one lamport with root 1, then a basic withdrawal
\* of one lamport against root 1 with nullifier n1 has just been paid.
C11_Witness ==
    /\ root_log = <<1>>
    /\ result.op = "on_chain_program_process_withdraw"
    /\ result.line = 354
    /\ result.err = Ok
    /\ Len(paid["n1"]) = 1
    /\ paid["n1"][1].amount = 1
    /\ paid["n1"][1].credit = 1
    /\ accounts[VAULT_PDA].lamports = VaultFloor
    /\ MarkerExists("n1")
    /\ Len(paid["n2"]) = 0

----------------------------------------------------------------------------
\* Every account list an Initialize may come with.
InitializeLists == {PoolAccounts} \cup FaultyPoolAccounts \cup MisaddressedPoolAccounts

InitializeHandled(accs) == process_instruction(Ix(<<INITIALIZE>>, NoData0), accs, TRUE)

\* The payer signs and the writable state account is the pool state.
NamesPoolState(accs) ==
    /\ Len(accs) = 4
    /\ accs[1].is_signer
    /\ accs[2].is_writable /\ accs[3].is_writable
    /\ accs[2].address = POOL_STATE_PDA

\* What n successive appends leave of a zero-filled state.
RECURSIVE Appended(_, _)
Appended(log, n) ==
    IF n = 0 THEN [ZeroedPoolState EXCEPT !.discriminator = ShieldedPoolState_DISCRIMINATOR]
    ELSE add_root(Appended(log, n - 1), log[n])

\* C12: Initialize on an initialized pool state returns success and leaves
\* currentRoot, roots and rootsIndex (the whole ledger) as they were, and an
\* Initialize that fails changes nothing either; so the pool state is always
\* what the successful deposits made of the state the first Initialize wrote,
\* however many Initialize calls came in between.
C12_InitializeIdempotent ==
    PoolReady =>
        /\ \A accs \in InitializeLists :
            LET h == InitializeHandled(accs) IN
            /\ h.accounts = accounts
            /\ Committed(h) = accounts
            /\ NamesPoolState(accs) =>
                /\ Outcome(h).err = Ok
                /\ h.line = 78
        /\ accounts[POOL_STATE_PDA].data = Appended(root_log, Len(root_log))

\* An Initialize has just returned success on the pool that holds the root of
\* an earlier deposit.
C12_Witness ==
    /\ result.op = "process_initialize"
    /\ result.line = 78
    /\ result.err = Ok
    /\ Len(root_log) >= 1
    /\ accounts[POOL_STATE_PDA].data.current_root = root_log[Len(root_log)]
    /\ accounts[POOL_STATE_PDA].data.roots_index = Len(root_log) % ROOT_HISTORY_SIZE

----------------------------------------------------------------------------
\* C13: on an initialized pool state rootsIndex is in [0, 32) (the number of
\* successful deposits modulo 32) and currentRoot is the value of the slot
\* written last, slot (rootsIndex - 1) mod 32, which holds the latest root
\* deposited (the zero root before the first deposit); every successful
\* Deposit advances rootsIndex by exactly one modulo 32.
C13_RingIndex ==
    PoolReady =>
        LET state == accounts[POOL_STATE_PDA].data
            last == (state.roots_index + (ROOT_HISTORY_SIZE - 1)) % ROOT_HISTORY_SIZE
        IN
        /\ state.roots_index \in 0..(ROOT_HISTORY_SIZE - 1)
        /\ state.roots_index = Len(root_log) % ROOT_HISTORY_SIZE
        /\ state.current_root = state.roots[last]
        /\ state.current_root = IF Len(root_log) = 0 THEN ZERO_ROOT
                                ELSE root_log[Len(root_log)]
        /\ \A req \in AnyDeposits :
            LET h == DepositHandled(req) IN
            Outcome(h).err = Ok =>
                /\ Committed(h)[POOL_STATE_PDA].data.roots_index
                    = (state.roots_index + 1) % ROOT_HISTORY_SIZE
                /\ Committed(h)[POOL_STATE_PDA].data.roots[state.roots_index]
                    = req.data.new_root
                /\ Committed(h)[POOL_STATE_PDA].data.current_root = req.data.new_root

\* The 33rd deposit has just wrapped the ring: it wrote slot 0 and rootsIndex
\* is 1.
C13_Witness ==
    /\ result.op = "process_deposit"
    /\ result.err = Ok
    /\ Len(root_log) = ROOT_HISTORY_SIZE + 1
    /\ accounts[POOL_STATE_PDA].data.roots_index = 1
    /\ accounts[POOL_STATE_PDA].data.roots[0] = root_log[ROOT_HISTORY_SIZE + 1]
    /\ accounts[POOL_STATE_PDA].data.current_root = root_log[ROOT_HISTORY_SIZE + 1]

----------------------------------------------------------------------------
\* The programs a caller may pass where a verifier is expected.
Programs ==
    {ZK_VERIFIER_PROGRAM_ID_BASIC, ZK_VERIFIER_PROGRAM_ID, AUDIT_VERIFIER_PROGRAM_ID,
     OTHER_PROGRAM}

\* The request with program p in the verifier's place (entry i of the account
\* list) and the answer v from that program.
Substituted(req, i, p, v) ==
    [req EXCEPT !.accs = With(req.accs, i, ReadOnly(p)), !.verifier_ok = v]

\* The requests a substitution is tried on.
BasicSample == BasicRequests \cup FaultyBasicRequests \cup MisaddressedBasicRequests
AuditedSample == AuditedRequests \cup FaultyAuditedRequests \cup MisaddressedAuditedRequests

SubmitAuditAll ==
    SubmitAuditRequests \cup FaultySubmitAuditRequests \cup MisaddressedSubmitAuditRequests

SubmitAuditHandled(req) ==
    Handled("process_submit_audit", process_submit_audit(req.accs, req.data, req.verifier_ok))

\* C14: a Withdraw or SubmitAudit that names another program than the
\* hard-coded verifier of its proof type is rejected with nothing changed and
\* before the proof is verified (whatever that program would answer; with
\* IncorrectProgramId when the signer and the flags are right), in every state
\* of the ledger; so every withdrawal that succeeds and every audit record
\* that is created names the fixed verifier and has its acceptance.
C14_VerifierNotSubstitutable ==
    /\ \A req \in BasicSample, p \in Programs \ {ZK_VERIFIER_PROGRAM_ID_BASIC}, v \in BOOLEAN :
        Len(req.accs) >= 6 =>
            LET h == BasicHandled(Substituted(req, 6, p, v)) IN
            /\ Rejected(h)
            /\ h.accounts = accounts
            /\ h.line <= 213
            /\ req \in BasicGrid => h.line = 213 /\ h.err = "IncorrectProgramId"
    /\ \A req \in AuditedSample, p \in Programs \ {ZK_VERIFIER_PROGRAM_ID}, v \in BOOLEAN :
        Len(req.accs) >= 6 =>
            LET h == AuditedHandled(Substituted(req, 6, p, v)) IN
            /\ Rejected(h)
            /\ h.accounts = accounts
            /\ h.line <= 47
            /\ req \in AuditedGrid => h.line = 47 /\ h.err = "IncorrectProgramId"
    /\ \A req \in SubmitAuditAll, p \in Programs \ {AUDIT_VERIFIER_PROGRAM_ID}, v \in BOOLEAN :
        Len(req.accs) >= 3 =>
            LET h == SubmitAuditHandled(Substituted(req, 3, p, v)) IN
            /\ Rejected(h)
            /\ h.accounts = accounts
            /\ h.line <= 38
            /\ req \in SubmitAuditRequests => h.line = 38 /\ h.err = "IncorrectProgramId"
    /\ \A req \in BasicAll :
        Outcome(BasicHandled(req)).err = Ok =>
            req.accs[6].address = ZK_VERIFIER_PROGRAM_ID_BASIC /\ req.verifier_ok
    /\ \A req \in AuditedAll :
        Outcome(AuditedHandled(req)).err = Ok =>
            req.accs[6].address = ZK_VERIFIER_PROGRAM_ID /\ req.verifier_ok
    /\ \A req \in SubmitAuditAll :
        LET h == SubmitAuditHandled(req) IN
        (Outcome(h).err = Ok /\ Committed(h) # accounts) =>
            req.accs[3].address = AUDIT_VERIFIER_PROGRAM_ID /\ req.verifier_ok

\* A withdrawal that named another program as its verifier has just been
\* rejected, though the pool holds funds it could have paid.
C14_Witness ==
    /\ result.op \in WithdrawOps
    /\ result.err = "IncorrectProgramId"
    /\ PoolReady
    /\ Withdrawable >= 1
    /\ ~MarkerExists("n1")

----------------------------------------------------------------------------
(* The order of the steps: the line a withdrawal of the grid returns at on *)
(* an initialized pool, which is the first step in the handler's order     *)
(* that the request does not pass.                                         *)

\* on_chain_program: root, nullifier, recipient, verifier, marker, transfer.
FirstFailingBasic(req) ==
    IF ~RootKnown(req) THEN 256
    ELSE IF MarkerExists(req.data.nullifier) THEN 269
    ELSE IF ~Bound(req) THEN 276
    ELSE IF ~req.verifier_ok THEN 298
    ELSE IF ~PayerCanFund THEN 320
    ELSE IF decode_amount(req.data.amount) > Withdrawable THEN 339
    ELSE 354

\* shielded_pool_program: audit linkage, root, nullifier, recipient, verifier,
\* marker, transfer.
FirstFailingAudited(req) ==
    IF ~Gated(req) THEN 104
    ELSE IF ~RootKnown(req) THEN 133
    ELSE IF MarkerExists(req.data.nullifier) THEN 146
    ELSE IF ~Bound(req) THEN 153
    ELSE IF ~req.verifier_ok THEN 175
    ELSE IF ~PayerCanFund THEN 197
    ELSE IF decode_amount(req.data.amount) > Withdrawable THEN 216
    ELSE 231

\* C15 (as stated): in the audit-gated variant the root check comes before the
\* audit linkage: a request whose root is not in the root history is rejected
\* by the root check whether or not an audit record exists for its commitment.
C15_RootCheckBeforeAuditLinkage ==
    PoolReady =>
        \A req \in AuditedGrid :
            ~RootKnown(req) =>
                LET h == AuditedHandled(req) IN
                /\ h.line = 133
                /\ h.err = "InvalidAccountData"

\* C15 (amended): the steps run in the stated order except that the
\* audit-gated variant evaluates the audit linkage before the root check: a
\* request whose root is not in the root history is rejected with nothing
\* changed, by the root check when the audit record of its commitment exists
\* and by the audit linkage when it does not; every request of either variant
\* returns at the first step of that order which it does not pass.
C15_AuditLinkageBeforeRootCheck ==
    PoolReady =>
        /\ \A req \in AuditedGrid :
            LET h == AuditedHandled(req) IN
            /\ h.line = FirstFailingAudited(req)
            /\ ~RootKnown(req) =>
                /\ Rejected(h)
                /\ h.accounts = accounts
                /\ Gated(req) => h.line = 133 /\ h.err = "InvalidAccountData"
                /\ ~Gated(req) => h.line \in 92..127
        /\ \A req \in BasicGrid :
            LET h == BasicHandled(req) IN
            /\ h.line = FirstFailingBasic(req)
            /\ ~RootKnown(req) => Rejected(h) /\ h.err = "InvalidAccountData"

\* On an initialized pool with no deposit and no audit record, an audit-gated
\* withdrawal (its root unknown, its record missing) has just been rejected by
\* the audit linkage.
C15_Witness ==
    /\ PoolReady
    /\ Len(root_log) = 0
    /\ audit_log = {}
    /\ result.op = "process_withdraw"
    /\ result.line = 104
    /\ result.err = "InvalidAccountOwner"

----------------------------------------------------------------------------
\* The request with an account the program does not own in the place of the
\* pool state.
WrongStateOwner(req) == [req EXCEPT !.accs = With(req.accs, 4, Writable(BOB))]

\* The record the request cites exists: whatever rejects the request, it is
\* not the absence of its record.
RecordPresent(req) ==
    /\ Len(req.accs) >= 7
    /\ req.accs[7].address = AuditPda(req.data.wa_commitment)
    /\ RecordExists(req.data.wa_commitment)

\* C16: an audit-gated withdrawal whose AuditRecord was never created is
\* rejected with an error of its own: no request that is rejected for another
\* cause (wrong account owner, uninitialized pool state, unknown root,
\* malformed input, replay), its record being present, gets the same error.
C16_AuditRequiredIsDistinct ==
    PoolReady =>
        \A req \in AuditedGrid :
            ~RecordExists(req.data.wa_commitment) =>
                LET missing == Outcome(AuditedHandled(req)).err IN
                /\ missing # Ok
                /\ \A other \in AuditedAll \cup { WrongStateOwner(r) : r \in AuditedGrid } :
                    RecordPresent(other) => Outcome(AuditedHandled(other)).err # missing

----------------------------------------------------------------------------
\* The request with the other answer from the verifier.
OtherAnswer(req) == [req EXCEPT !.verifier_ok = ~req.verifier_ok]

\* What the handler has written when it returns.
MarkerCreated(req, h) ==
    /\ accounts[NullifierPda(req.data.nullifier)].lamports = 0
    /\ h.accounts[NullifierPda(req.data.nullifier)].lamports > 0

FundsMoved(req, h) ==
    \/ h.accounts[VAULT_PDA].lamports # accounts[VAULT_PDA].lamports
    \/ h.accounts[req.accs[2].address].lamports > accounts[req.accs[2].address].lamports

\* The steps of one withdrawal execution, for C17.
StepsInOrder(req, h, reaches_verifier, verifier_line, paid_line) ==
    /\ ~reaches_verifier =>
        /\ h.accounts = accounts
        /\ h.err # Ok
        /\ h.line < verifier_line
    /\ ~(reaches_verifier /\ req.verifier_ok) =>
        /\ h.accounts = accounts
        /\ h.err # Ok
        /\ h.line <= verifier_line
    /\ h.accounts # accounts =>
        /\ MarkerCreated(req, h)
        /\ h.line > verifier_line
    /\ FundsMoved(req, h) => MarkerCreated(req, h) /\ h.line = paid_line
    /\ Committed(h) # accounts => MarkerCreated(req, h) /\ h.line = paid_line

\* C17: the verifier's answer is consulted only when the root check, the
\* nullifier check and the recipient binding (and the audit linkage) have
\* passed: a request that fails one of them returns before the verifier's
\* line, the same for both answers; the marker is created only when the
\* verifier accepted; the balances are written only with the marker created;
\* a request that fails an earlier step creates no marker and moves nothing.
C17_StepsInOrder ==
    /\ \A req \in BasicAll :
        LET h == BasicHandled(req) IN
        /\ StepsInOrder(req, h, Len(req.accs) = 7 /\ ReachesVerifierBasic(req), 298, 354)
        /\ h.line < 298 => BasicHandled(OtherAnswer(req)) = h
    /\ \A req \in AuditedAll :
        LET h == AuditedHandled(req) IN
        /\ StepsInOrder(req, h, Len(req.accs) = 8 /\ ReachesVerifierAudited(req), 175, 231)
        /\ h.line < 175 => AuditedHandled(OtherAnswer(req)) = h

\* An audit-gated withdrawal has just run through every step: the verifier
\* accepted, the marker of n2 was created and one lamport was paid.
C17_Witness ==
    /\ result.op = "process_withdraw"
    /\ result.line = 231
    /\ result.err = Ok
    /\ MarkerExists("n2")
    /\ ~MarkerExists("n1")
    /\ Len(paid["n2"]) = 1
    /\ paid["n2"][1].debit = 1
    /\ paid["n2"][1].gate = "c1"

----------------------------------------------------------------------------
\* The AuditRecord of commitment c in initialized form.
InitializedRecord(c) ==
    [lamports |-> try_minimum_balance(AuditRecord_LEN),
     owner |-> "program",
     data |-> [kind |-> "audit", discriminator |-> AuditRecord_DISCRIMINATOR,
               wa_commitment |-> c]]

\* C18: the account at a commitment's derived address is an initialized
\* AuditRecord exactly when a SubmitAudit for that commitment created it, and
\* is untouched otherwise (no other operation creates one); a SubmitAudit
\* writes only with the fixed audit verifier's acceptance, and then creates
\* the record of the waCommitment of its payload and nothing else but the
\* payer's charge; with the verifier refusing it writes nothing.
C18_RecordOnlyAfterVerifier ==
    /\ \A c \in Commitments :
        IF c \in audit_log
        THEN accounts[AuditPda(c)] = InitializedRecord(c)
        ELSE accounts[AuditPda(c)] = InitialAccount(AuditPda(c))
    /\ \A req \in SubmitAuditAll :
        LET h == SubmitAuditHandled(req)
            c == req.data.wa_commitment
        IN
        /\ ~req.verifier_ok => h.accounts = accounts /\ Committed(h) = accounts
        /\ h.accounts # accounts =>
            /\ req.verifier_ok
            /\ req.accs[3].address = AUDIT_VERIFIER_PROGRAM_ID
            /\ h.line = 121
            /\ ~RecordExists(c)
            /\ h.accounts[AuditPda(c)] = InitializedRecord(c)
            /\ \A a \in Addresses \ {AuditPda(c), PAYER} : h.accounts[a] = accounts[a]

\* The audit verifier has just refused the proof for c1: no record of c1
\* exists, while the record of c2, whose proof was accepted, does.
C18_Witness ==
    /\ result.op = "process_submit_audit"
    /\ result.line = 87
    /\ result.err = "VerifierError"
    /\ audit_log = {"c2"}
    /\ ~RecordExists("c1")
    /\ accounts[AuditPda("c2")] = InitializedRecord("c2")

----------------------------------------------------------------------------
\* What a funded record address may hold that is not the record of c: no data
\* (too short), a zero-filled record (uninitialized), the record of another
\* commitment.
MalformedRecordData(c) ==
    {NoData, ZeroedAuditRecord}
    \cup { [kind |-> "audit", discriminator |-> AuditRecord_DISCRIMINATOR,
            wa_commitment |-> other] : other \in (Commitments \cup {"zero"}) \ {c} }

\* The ledger with such an account at the address of c.
Colliding(c, lamports, owner, data) ==
    [accounts EXCEPT ![AuditPda(c)] = [lamports |-> lamports, owner |-> owner, data |-> data]]

\* The address of c is funded and does not hold the record of c.
Collision(c) ==
    /\ accounts[AuditPda(c)].lamports > 0
    /\ accounts[AuditPda(c)].data \in MalformedRecordData(c)

\* C19: a SubmitAudit that finds the derived address of its commitment funded
\* with data that is too short, uninitialized or of another commitment fails
\* with the conflict error AccountAlreadyInitialized and leaves the ledger as
\* it was, whatever the verifier would answer (it is not asked); the branch
\* answers so for each of the three forms of data.
C19_CollisionIsConflict ==
    \A c \in Commitments :
        /\ Collision(c) =>
            \A v \in BOOLEAN :
                LET h == SubmitAuditFor(c, v) IN
                /\ h.err = "AccountAlreadyInitialized"
                /\ h.line = 77
                /\ h.accounts = accounts
                /\ Rejected(h)
        /\ \A data \in MalformedRecordData(c), owner \in {"system", "program"},
              lamports \in 1..try_minimum_balance(AuditRecord_LEN) :
            LET led == Colliding(c, lamports, owner, data) IN
            existing_audit_record(led, Writable(AuditPda(c)), c)
                = Exit(77, "AccountAlreadyInitialized", led)

\* A SubmitAudit for c1 has just failed as a conflict: its address had been
\* sent a lamport and holds no data; no record was ever created.
C19_Witness ==
    /\ result.op = "process_submit_audit"
    /\ result.line = 77
    /\ result.err = "AccountAlreadyInitialized"
    /\ accounts[AuditPda("c1")].lamports = 1
    /\ accounts[AuditPda("c1")].data = NoData
    /\ audit_log = {}

----------------------------------------------------------------------------
\* The handler left the pool state and every existing AuditRecord as they
\* were, both in what it wrote and in what the transaction commits.
LeavesStateAndRecords(h) ==
    /\ h.accounts[POOL_STATE_PDA] = accounts[POOL_STATE_PDA]
    /\ Committed(h)[POOL_STATE_PDA] = accounts[POOL_STATE_PDA]
    /\ \A c \in Commitments :
        RecordExists(c) =>
            /\ h.accounts[AuditPda(c)] = accounts[AuditPda(c)]
            /\ Committed(h)[AuditPda(c)] = accounts[AuditPda(c)]

\* C20: every Withdraw of either variant, successful or rejected, and every
\* SubmitAudit leaves the pool state (currentRoot, roots, rootsIndex) as it
\* was, so that the pool state is what the successful deposits alone made of
\* it; and they leave every existing AuditRecord (discriminator, waCommitment)
\* as it was.
C20_FrameOfStateAndRecords ==
    /\ \A req \in BasicAll : LeavesStateAndRecords(BasicHandled(req))
    /\ \A req \in AuditedAll : LeavesStateAndRecords(AuditedHandled(req))
    /\ \A req \in SubmitAuditAll : LeavesStateAndRecords(SubmitAuditHandled(req))
    /\ PoolReady => accounts[POOL_STATE_PDA].data = Appended(root_log, Len(root_log))
    /\ \A c \in audit_log : accounts[AuditPda(c)] = InitializedRecord(c)

\* An audit-gated withdrawal gated by the record of c2 has just been paid:
\* the pool state still holds the one deposit's root and the record is as
\* SubmitAudit wrote it.
C20_Witness ==
    /\ result.op = "process_withdraw"
    /\ result.err = Ok
    /\ root_log = <<1>>
    /\ accounts[POOL_STATE_PDA].data.current_root = 1
    /\ accounts[POOL_STATE_PDA].data.roots_index = 1
    /\ "c2" \in audit_log
    /\ accounts[AuditPda("c2")] = InitializedRecord("c2")
    /\ \E n \in Nullifiers : Len(paid[n]) = 1 /\ paid[n][1].gate = "c2"

----------------------------------------------------------------------------
\* Eight bytes read as a big-endian number, byte by byte.
BigEndian(b) ==
    (((((((((((((b[1] * 256) + b[2]) * 256) + b[3]) * 256) + b[4]) * 256) + b[5]) * 256)
        + b[6]) * 256) + b[7]) * 256) + b[8]

\* Byte strings whose value depends on the order of the bytes.
SampleBytes ==
    { <<0, 0, 0, 0, 0, 0, 0, 0>>, <<0, 0, 0, 0, 0, 0, 0, 3>>, <<0, 0, 0, 0, 0, 0, 1, 2>>,
      <<0, 0, 0, 0, 0, 1, 0, 0>>, <<0, 0, 0, 0, 1, 2, 3, 4>>, <<0, 0, 0, 0, 127, 255, 255, 255>> }

\* The request with the other content in the 24 high-order bytes of its
\* amount field.
OtherHighBytes(req) == [req EXCEPT !.data.amount.high = 1 - @]

\* What the handler moved out of the vault.
Debited(h) == accounts[VAULT_PDA].lamports - h.accounts[VAULT_PDA].lamports

\* C21: the quantity a withdrawal transfers is bytes 24..32 of the amount
\* field read as a big-endian u64; bytes 0..24 are not looked at: two requests
\* that differ only in them get the same answer and leave the same ledger,
\* and a request that is valid in everything else is paid the value of its
\* low 8 bytes whatever its high bytes are.
C21_AmountIsLowEightBytes ==
    /\ \A b \in SampleBytes :
        \A high \in {0, 1} : decode_amount([high |-> high, low |-> b]) = BigEndian(b)
    /\ \A req \in BasicGrid :
        LET h == BasicHandled(req)
            w == BigEndian(req.data.amount.low)
        IN
        /\ BasicHandled(OtherHighBytes(req)) = h
        /\ Outcome(h).err = Ok => Debited(h) = w
        /\ (ReachesVerifierBasic(req) /\ req.verifier_ok /\ PayerCanFund /\ w <= Withdrawable)
            => Outcome(h).err = Ok
    /\ \A req \in AuditedGrid :
        LET h == AuditedHandled(req)
            w == BigEndian(req.data.amount.low)
        IN
        /\ AuditedHandled(OtherHighBytes(req)) = h
        /\ Outcome(h).err = Ok => Debited(h) = w
        /\ (ReachesVerifierAudited(req) /\ req.verifier_ok /\ PayerCanFund /\ w <= Withdrawable)
            => Outcome(h).err = Ok
    /\ \A n \in Nullifiers :
        \A i \in 1..Len(paid[n]) : paid[n][i].debit = paid[n][i].amount

\* A withdrawal whose amount field has non-zero high bytes and 1 in its low
\* 8 bytes has just been paid one lamport.
C21_Witness ==
    /\ result.err = Ok
    /\ result.op = "process_withdraw"
    /\ Len(paid["n1"]) = 1
    /\ paid["n1"][1].high = 1
    /\ paid["n1"][1].amount = 1
    /\ paid["n1"][1].debit = 1
    /\ paid["n1"][1].credit = 1

----------------------------------------------------------------------------
\* The request with another account as its destination, the proof and the
\* witness (the recipient field included) as they are.
SentTo(req, destination) == [req EXCEPT !.accs = With(req.accs, 2, Writable(destination))]

\* Destinations: two that share their first 30 bytes, one that does not, and
\* the payer.
Destinations == {ALICE, ALICE2, BOB, PAYER}

\* The destination's first 30 bytes are those the recipient field encodes.
AgreesOnFirst30(req, destination) ==
    /\ req.data.recipient.top = 0
    /\ req.data.recipient.low = destination.head

\* C22: for a fixed proof and witness the recipient check passes for every
\* destination whose address agrees with the recipient field on its first 30
\* bytes, whatever its last 2 bytes, and fails for every destination that
\* differs in the first 30: with the earlier checks passed, the withdrawal
\* returns from the recipient check exactly for the latter, and two
\* destinations that agree on the first 30 bytes are answered alike, each
\* being paid when the withdrawal succeeds.
C22_RecipientBindsFirst30Bytes ==
    /\ expected_recipient(ALICE) = expected_recipient(ALICE2)
    /\ expected_recipient(ALICE) # expected_recipient(BOB)
    /\ \A req \in BasicGrid, d \in Destinations :
        (ReachesNullifierBasic(req) /\ ~MarkerExists(req.data.nullifier)) =>
            LET h == BasicHandled(SentTo(req, d)) IN
            /\ h.line = 276 <=> ~AgreesOnFirst30(req, d)
            /\ AgreesOnFirst30(req, d) =>
                /\ h.line > 276
                /\ h.line = BasicHandled(SentTo(req, ALICE)).line
                /\ Outcome(h).err = Ok =>
                    Committed(h)[d].lamports
                        = accounts[d].lamports + BigEndian(req.data.amount.low)
    /\ \A req \in AuditedGrid, d \in Destinations :
        (ReachesNullifierAudited(req) /\ ~MarkerExists(req.data.nullifier)) =>
            LET h == AuditedHandled(SentTo(req, d)) IN
            /\ h.line = 153 <=> ~AgreesOnFirst30(req, d)
            /\ AgreesOnFirst30(req, d) =>
                /\ h.line > 153
                /\ h.line = AuditedHandled(SentTo(req, ALICE)).line
                /\ Outcome(h).err = Ok =>
                    Committed(h)[d].lamports
                        = accounts[d].lamports + BigEndian(req.data.amount.low)

\* A withdrawal whose recipient field encodes the first 30 bytes that ALICE
\* and ALICE2 share has just been paid to ALICE2.
C22_Witness ==
    /\ result.err = Ok
    /\ result.op \in WithdrawOps
    /\ Len(paid["n1"]) = 1
    /\ paid["n1"][1].recipient = ALICE2
    /\ paid["n1"][1].credit = 1
    /\ accounts[ALICE2].lamports = try_minimum_balance(0) + 1
    /\ accounts[ALICE].lamports = try_minimum_balance(0)

----------------------------------------------------------------------------
\* Lengths a buffer may have other than the one the operation accepts: one
\* byte less or more, nothing, and the lengths of the other operations.
WrongLengths(right) ==
    {0, right - 1, right + 1, DEPOSIT_DATA_LEN, BASIC_LEN, AUDITED_LEN, AUDIT_LEN} \ {right}

\* The request with a buffer of that length.
OfLength(req, len) == [req EXCEPT !.data.len = len]

DepositsAll == AnyDeposits \cup FaultyDepositRequests \cup MisaddressedDepositRequests

\* C23: the lengths are 528 (basic Withdraw), 560 (audit-gated Withdraw), 72
\* (Deposit) and 464 (SubmitAudit); a buffer of any other length is rejected
\* with nothing changed, and with InvalidInstructionData by the handler's
\* length check when the request passes the checks made before it (signer,
\* flags, verifier identity, pool state), whatever its root, nullifier, audit
\* record, recipient and proof; the audit-gated handler so rejects a
\* basic-shaped payload.
C23_WrongLengthRejected ==
    /\ BASIC_LEN = 528 /\ AUDITED_LEN = 560 /\ DEPOSIT_DATA_LEN = 72 /\ AUDIT_LEN = 464
    /\ \A req \in BasicSample, len \in WrongLengths(BASIC_LEN) :
        LET h == BasicHandled(OfLength(req, len)) IN
        /\ Rejected(h)
        /\ h.accounts = accounts
        /\ (req \in BasicGrid /\ PoolReady) =>
            h.line = 234 /\ h.err = "InvalidInstructionData"
    /\ \A req \in AuditedSample, len \in WrongLengths(AUDITED_LEN) :
        LET h == AuditedHandled(OfLength(req, len)) IN
        /\ Rejected(h)
        /\ h.accounts = accounts
        /\ (req \in AuditedGrid /\ PoolReady) =>
            h.line = 68 /\ h.err = "InvalidInstructionData"
    /\ \A req \in DepositsAll, len \in WrongLengths(DEPOSIT_DATA_LEN) :
        LET h == DepositHandled(OfLength(req, len)) IN
        /\ Rejected(h)
        /\ h.accounts = accounts
        /\ req \in AnyDeposits => h.line = 137 /\ h.err = "InvalidInstructionData"
    /\ \A req \in SubmitAuditAll, len \in WrongLengths(AUDIT_LEN) :
        LET h == SubmitAuditHandled(OfLength(req, len)) IN
        /\ Rejected(h)
        /\ h.accounts = accounts
        /\ req \in SubmitAuditRequests => h.line = 44 /\ h.err = "InvalidInstructionData"
    /\ PoolReady =>
        /\ \A req \in BasicGrid : BasicHandled(req).line > 234
        /\ \A req \in AuditedGrid : AuditedHandled(req).line > 68

\* The audit-gated handler has just rejected a buffer of the wrong length on
\* a pool that holds funds, the audit record of c1 and no marker.
C23_Witness ==
    /\ result.op = "process_withdraw"
    /\ result.line = 68
    /\ result.err = "InvalidInstructionData"
    /\ PoolReady
    /\ Withdrawable >= 1
    /\ "c1" \in audit_log
    /\ ~MarkerExists("n1")

----------------------------------------------------------------------------
\* The withdrawals that were paid under the gate of commitment c.
GatedBy(c) ==
    { n \in Nullifiers : \E i \in 1..Len(paid[n]) : paid[n][i].gate = c }

\* C24: the AuditRecord of a commitment is not consumed by the withdrawals it
\* gates: however many withdrawals were paid citing c, the record is as
\* SubmitAudit wrote it and every audit-gated withdrawal citing c passes the
\* audit linkage; one with a fresh nullifier that is valid in everything else
\* is paid.
C24_RecordNotConsumed ==
    \A c \in audit_log :
        /\ accounts[AuditPda(c)] = InitializedRecord(c)
        /\ PoolReady =>
            \A req \in AuditedGrid :
                req.data.wa_commitment = c =>
                    LET h == AuditedHandled(req) IN
                    /\ h.line > 127
                    /\ (/\ RootKnown(req)
                        /\ ~MarkerExists(req.data.nullifier)
                        /\ Bound(req)
                        /\ req.verifier_ok
                        /\ PayerCanFund
                        /\ decode_amount(req.data.amount) <= Withdrawable)
                       => Outcome(h).err = Ok /\ h.line = 231

\* After the one SubmitAudit for c1, a second audit-gated withdrawal citing
\* c1, with the other nullifier, has just been paid.
C24_Witness ==
    /\ audit_log = {"c1"}
    /\ GatedBy("c1") = {"n1", "n2"}
    /\ result.op = "process_withdraw"
    /\ result.line = 231
    /\ result.err = Ok
    /\ accounts[AuditPda("c1")] = InitializedRecord("c1")

====
